---- MODULE Spec2Model ----
(***************************************************************************)
(* State-machine model of the CODAP hierarchical case-data model:          *)
(* DG.DataContext (change dispatch, change log, selection), the cases and  *)
(* collections it owns, and the undo/redo command stack that wraps the     *)
(* deleteCases change.                                                     *)
(*                                                                         *)
(* The data context is modelled by pure operators over a record S that     *)
(* bundles the program state; each action of the state machine is one call *)
(* from outside (applyChange, undo, redo, the end of the run loop) and     *)
(* runs to completion, as the single-threaded program does.                *)
(***************************************************************************)
EXTENDS Integers, Sequences, FiniteSets, TLC

\* ------------------------------------------------------------------ bounds
\* The change log is not pruned by the program; the model applies changes
\* from outside while the log holds fewer than this many, and offers undo
\* and redo while it holds no more than this many.
MaxChanges == 3
\* Of these changes, at most this many are attribute changes
\* (createAttributes, updateAttributes, deleteAttributes).
MaxAttributeChanges == 1
\* Commands that leave no change in the log (guide.show, the graph's
\* toggle of the plotted mean) are executed while the undo and redo stacks
\* together hold fewer than this many commands.
MaxCommands == 3
\* beginUpdate() is called on a row index while fewer than this many of its
\* suspensions are open.
MaxNesting == 2
\* The external save of the main document reports failure while the
\* document change count is below this.
MaxDocumentChanges == 3
\* copyDocument is requested while the save in progress has fewer than this
\* many callbacks waiting for it.
MaxDeferred == 2

\* ------------------------------------------------------ input vocabularies
CollOrder == <<"Families", "People", "Events">>
CollNames == {CollOrder[i] : i \in DOMAIN CollOrder}
\* attribute lists a caller passes to createCollection
AttrLists == {<<"x", "y">>, <<"y", "x">>}
\* value arrays a caller passes to createCase / createCases
ValueArrays == {<<>>, <<1, 2>>}
\* arrays of value arrays a caller passes to createCases
BatchArrays == {<< <<1, 2>>, <<>> >>}
\* value arrays a caller passes to updateCases
UpdateArrays == {<<2, 1>>}
\* attribute names a caller passes to createAttributes / updateAttributes
AttrNames == {"x", "z"}

VARIABLES
  collections,          \* parent->child ordered list of collections
  cases,                \* DG.store: every DG.Case ever created, by ID
  attrCount,            \* number of attribute IDs handed out so far
  changes,              \* DG.DataContext.changes
  _changeCount,         \* DG.DataContext._changeCount
  _prevChangeCount,     \* DG.DataContext._prevChangeCount
  changeCount,          \* DG.DataContext.changeCount (observed property)
  invokeLastPending,    \* an invokeLast callback is queued for end of turn
  selectionChangeCount, \* DG.DataContext.selectionChangeCount
  undoStack,            \* DG.UndoHistory undo stack (top = last element)
  redoStack,            \* DG.UndoHistory redo stack (top = last element)
  documentChangeCount,  \* DG.DocumentController.changeCount (document dirtied)
  guideIsVisible,       \* DG.GuideController view.isVisible
  plottedMeanIsVisible, \* DG.DotPlotModel plottedMean adornment isVisible
  last,                 \* the most recent call and its inputs (history)
  collapsed,            \* DG.CaseTableModel: the cases marked collapsed
  _rowCaseMap,          \* DG.CaseTableDataManager._rowCaseMap, by collection
  suspended,            \* DG.CaseTableDataManager.suspended, by collection
  refreshNeeded,        \* DG.CaseTableDataManager.refreshNeeded, by collection
  updateDepth,          \* beginUpdate() calls not yet ended, by collection (history)
  tableLast,            \* the most recent call on the case tables (history)
  saveInProgress,       \* DG.DocumentController.saveInProgress is set
  saveDone,             \* callbacks added to saveInProgress with done()
  saves,                \* the saves and copies begun and not finished
  savedChangeCount,     \* DG.DocumentController.savedChangeCount
  _changedObjects,      \* DG.DocumentController._changedObjects
  _skipPatchNextTime,   \* DG.DocumentController._skipPatchNextTime
  externalDocumentId,   \* the data context's externalDocumentId, 0 for none
  oldExternalDocumentId \* the data context's oldExternalDocumentId, 0 for none

vars == <<collections, cases, attrCount, changes, _changeCount,
          _prevChangeCount, changeCount, invokeLastPending,
          selectionChangeCount, undoStack, redoStack, documentChangeCount,
          guideIsVisible, plottedMeanIsVisible, last, collapsed, _rowCaseMap,
          suspended, refreshNeeded, updateDepth, tableLast, saveInProgress,
          saveDone, saves, savedChangeCount, _changedObjects,
          _skipPatchNextTime, externalDocumentId, oldExternalDocumentId>>

\* the state of saving on the document controller
saveVars == <<saveInProgress, saveDone, saves, savedChangeCount, _changedObjects,
              _skipPatchNextTime, externalDocumentId, oldExternalDocumentId>>

\* the state of the case tables, one row index for each collection
tableVars == <<collapsed, _rowCaseMap, suspended, refreshNeeded, updateDepth>>

\* ----------------------------------------------------------------- helpers
SeqToSet(s) == {s[i] : i \in DOMAIN s}

Min(a, b) == IF a < b THEN a ELSE b

\* position (1-based) of x in s, 0 when absent
PosOf(s, x) == IF \E i \in DOMAIN s : s[i] = x
                 THEN CHOOSE i \in DOMAIN s : s[i] = x /\ \A j \in 1..(i-1) : s[j] # x
                 ELSE 0

\* SC.Array.removeObject
removeObject(s, x) == SelectSeq(s, LAMBDA e : e # x)

\* SC.Array.insertAt with a 0-based index (clamped to the length)
insertAt(s, idx, x) ==
  LET k == Min(idx, Len(s))
  IN  SubSeq(s, 1, k) \o <<x>> \o SubSeq(s, k + 1, Len(s))

\* every sequence over S of length 0..n
RECURSIVE SeqsUpTo(_, _)
SeqsUpTo(S, n) ==
  IF n = 0 THEN {<<>>}
  ELSE LET shorter == SeqsUpTo(S, n - 1)
       IN  shorter \cup {Append(s, x) : s \in {t \in shorter : Len(t) = n - 1}, x \in S}

\* sequences without repetition
DistinctSeqs(S, n) == {s \in SeqsUpTo(S, n) : Cardinality(SeqToSet(s)) = Len(s)}

\* ascending enumeration of a finite set of integers (the order in which
\* JavaScript's for-in visits integer-like keys of an object)
RECURSIVE SortedSeq(_)
SortedSeq(S) ==
  IF S = {} THEN <<>>
  ELSE LET m == CHOOSE x \in S : \A y \in S : x <= y
       IN  <<m>> \o SortedSeq(S \ {m})

\* what a call answers when it ends in an exception (a TypeError)
threw == [threw |-> TRUE]

\* ------------------------------------------------------- the bundled state
State == [collections |-> collections, cases |-> cases, attrCount |-> attrCount,
          changes |-> changes, _changeCount |-> _changeCount,
          _prevChangeCount |-> _prevChangeCount,
          invokeLastPending |-> invokeLastPending,
          selectionChangeCount |-> selectionChangeCount,
          undoStack |-> undoStack, redoStack |-> redoStack,
          documentChangeCount |-> documentChangeCount,
          guideIsVisible |-> guideIsVisible,
          plottedMeanIsVisible |-> plottedMeanIsVisible,
          saveInProgress |-> saveInProgress, saveDone |-> saveDone,
          saves |-> saves, savedChangeCount |-> savedChangeCount,
          _changedObjects |-> _changedObjects,
          _skipPatchNextTime |-> _skipPatchNextTime,
          externalDocumentId |-> externalDocumentId,
          oldExternalDocumentId |-> oldExternalDocumentId,
          executeInProgress |-> FALSE]

\* --------------------------------------------------- collection look-ups
collectionCount(S) == Len(S.collections)

\* DG.DataContext.childCollection: the last collection, 0 (null) when none
childCollection(S) == collectionCount(S)

\* DG.DataContext.getCollectionByName: 0 (null) when no collection has the name
getCollectionByName(S, iName) ==
  IF \E i \in 1..collectionCount(S) : S.collections[i].name = iName
    THEN CHOOSE i \in 1..collectionCount(S) :
           /\ S.collections[i].name = iName
           /\ \A j \in 1..(i-1) : S.collections[j].name # iName
    ELSE 0

\* DG.Collection.getParentCollectionID: 0 (null) for a root collection
getParentCollectionID(S, c) == S.collections[c].parent

\* DG.DataContext.getCaseByID = DG.store.find(DG.Case, id): 0 when the id
\* resolves to no existing, non-deleted case
getCaseByID(S, iCaseID) ==
  IF iCaseID \in 1..Len(S.cases) /\ ~S.cases[iCaseID].isDestroyed THEN iCaseID ELSE 0

\* DG.DataContext.getCollectionForCase
getCollectionForCase(S, iCase) == S.cases[iCase].collection

\* DG.CollectionClient.getAttributeIDs
getAttributeIDs(S, c) == [i \in 1..Len(S.collections[c].attrs) |-> S.collections[c].attrs[i].id]

\* DG.Case.getValue: 0 stands for the missing value (undefined)
getValue(S, iCase, iAttrID) ==
  IF iAttrID \in DOMAIN S.cases[iCase].values THEN S.cases[iCase].values[iAttrID] ELSE 0

\* ------------------------------------------------ DG.UndoHistory, dirtying
\* DG.UndoHistory.documentWasChanged: a document change that does not come
\* from inside a running command clears the undo history
documentWasChanged(S) ==
  IF S.executeInProgress THEN S
  ELSE [S EXCEPT !.undoStack = <<>>, !.redoStack = <<>>]

\* the objects DG.dirtyCurrentDocument is told of: the document
\* (DG.currDocumentController().get('content'), the default) and the data
\* context's model
content == "document"
context == "context"

\* DG.DocumentController.objectChanged
objectChanged(S, obj) == [S EXCEPT !._changedObjects = @ \cup {obj}]

\* DG.DocumentController.clearChangedObject
clearChangedObject(S, obj) == [S EXCEPT !._changedObjects = @ \ {obj}]

\* DG.DocumentController.objectHasUnsavedChanges
objectHasUnsavedChanges(S, obj) == obj \in S._changedObjects

\* update of DG.dirtyCurrentDocument
update(S, changedObject) ==
  [objectChanged(S, changedObject) EXCEPT !.documentChangeCount = @ + 1]

\* DG.dirtyCurrentDocument that does not tell the undo history
dirtyCurrentDocumentQuietly(S, changedObject) ==
  IF S.saveInProgress
    THEN [S EXCEPT !.saveDone = Append(@, [kind |-> "update", changedObject |-> changedObject])]
    ELSE update(S, changedObject)

\* DG.dirtyCurrentDocument: tells the undo history, then counts the change
\* on the document controller, after the save in progress if there is one
dirtyCurrentDocument(S, changedObject) ==
  IF S.saveInProgress
    THEN [documentWasChanged(S) EXCEPT
            !.saveDone = Append(@, [kind |-> "update", changedObject |-> changedObject])]
    ELSE update(documentWasChanged(S), changedObject)

\* ------------------------------------------------------- createCollection
\* DG.Collection.guaranteeAttribute: find the attribute by name or append a
\* new one with a fresh ID
guaranteeAttribute(S, c, iName) ==
  IF \E i \in DOMAIN S.collections[c].attrs : S.collections[c].attrs[i].name = iName
    THEN S
    ELSE [S EXCEPT !.attrCount = @ + 1,
                   !.collections[c].attrs = Append(@, [id |-> S.attrCount + 1, name |-> iName])]

RECURSIVE guaranteeAttributes(_, _, _)
guaranteeAttributes(S, c, iNames) ==
  IF iNames = <<>> THEN S
  ELSE guaranteeAttributes(guaranteeAttribute(S, c, Head(iNames)), c, Tail(iNames))

\* DG.Collection.reorderAttributes: the named attributes first, in the order
\* of their first mention, then every other attribute in its present order
reorderAttributes(attrs, iNames) ==
  LET firstMention == SelectSeq([i \in 1..Len(iNames) |-> i],
                                LAMBDA i : \A j \in 1..(i-1) : iNames[j] # iNames[i])
      named == [k \in 1..Len(firstMention) |->
                  CHOOSE a \in SeqToSet(attrs) : a.name = iNames[firstMention[k]]]
      others == SelectSeq(attrs, LAMBDA a : a.name \notin SeqToSet(iNames))
  IN  named \o others

\* DG.Collection.createCollection: the new collection, <<>> (null) when the
\* creation fails; iProperties.isCreatable tells which of the two it will be
collectionCreateCollection(iProperties) ==
  IF iProperties.isCreatable
    THEN <<[name |-> iProperties.name, parent |-> iProperties.parent,
            attrs |-> <<>>, cases |-> <<>>, selection |-> {}]>>
    ELSE <<>>

\* DG.DataContext.addCollection: the collection gets its client and joins
\* the context's list; without a collection there is no client (null)
addCollection(S, iCollection) ==
  [S EXCEPT !.collections = @ \o iCollection]

\* DG.DataContext.createCollection
createCollection(S, iProperties) ==
  addCollection(S, collectionCreateCollection(iProperties))

\* a guaranteeCollection that creates without looking for the name
guaranteeCollectionAnew(S, iProperties) ==
  createCollection(S, iProperties)

\* DG.DataContext.guaranteeCollection
guaranteeCollection(S, iProperties) ==
  IF getCollectionByName(S, iProperties.name) # 0 THEN S
  ELSE createCollection(S, iProperties)

\* assembleInheritedAttributes: the names of the parent's attributes
assembleInheritedAttributes(S, parentCollection) ==
  [i \in 1..Len(S.collections[parentCollection].attrs) |->
     S.collections[parentCollection].attrs[i].name]

\* DG.DataContext.doCreateCollection.  tCollection is asked for its parent
\* before it is tested, so that a collection that was neither found nor
\* created (null) ends in a TypeError; the return of success: false after
\* the test is never reached.
doCreateCollection(S, iChange) ==
  LET S1 == guaranteeCollection(S, iChange.properties)
      tCollection == getCollectionByName(S1, iChange.properties.name)
      tParentID == getParentCollectionID(S1, tCollection)
      attributes == IF tParentID # 0
                      THEN assembleInheritedAttributes(S1, tParentID) \o iChange.attributes
                      ELSE iChange.attributes
      S2 == guaranteeAttributes(S1, tCollection, attributes)
      S3 == [S2 EXCEPT !.collections[tCollection].attrs = reorderAttributes(@, attributes)]
  IN  IF tCollection = 0
        THEN [S |-> S1, result |-> threw, ids |-> <<>>]
        ELSE [S |-> S3,
              result |-> [success |-> TRUE, caseIDs |-> <<>>, collection |-> tCollection],
              ids |-> <<>>]

\* ------------------------------------------------ createCase / createCases
\* DG.CollectionClient.setCaseValuesFromArray: positional, in the order of
\* the collection's attributes
collectionSetCaseValuesFromArray(S, c, iCase, iValues) ==
  LET ids == getAttributeIDs(S, c)
      n == Min(Len(ids), Len(iValues))
      set == {ids[i] : i \in 1..n}
      old == S.cases[iCase].values
  IN  [S EXCEPT !.cases[iCase].values =
         [a \in (DOMAIN old) \cup set |->
            IF a \in set THEN iValues[CHOOSE i \in 1..n : ids[i] = a] ELSE old[a]]]

\* DG.Collection.createCase / DG.Case.createCase: a new case with the next
\* ID, linked to its parent's children, placed at properties.index or at
\* the end (index -1 stands for undefined)
collectionCreateCase(S, c, parent, index) ==
  LET id == Len(S.cases) + 1
      newCase == [collection |-> c, parent |-> parent, children |-> <<>>,
                  values |-> <<>>, isDestroyed |-> FALSE]
      cs1 == Append(S.cases, newCase)
      cs2 == IF parent # 0 THEN [cs1 EXCEPT ![parent].children = Append(@, id)] ELSE cs1
  IN  [S EXCEPT !.cases = cs2,
                !.collections[c].cases =
                   IF index >= 0 THEN insertAt(@, index, id) ELSE Append(@, id)]

\* validateParent that lets a missing properties.parent pass
validateParentUnlessMissing(S, collection, parentKey) ==
  IF getParentCollectionID(S, collection) # 0
    THEN parentKey = 0 \/ getCaseByID(S, parentKey) # 0
    ELSE TRUE

\* validateParent (in doCreateCases)
validateParent(S, collection, parentKey) ==
  IF getParentCollectionID(S, collection) # 0
    THEN getCaseByID(S, parentKey) # 0
    ELSE TRUE

\* a createOneCase that sets the caller's values alone
RECURSIVE createCasesLoopOwnValues(_, _, _, _, _, _)
createCasesLoopOwnValues(R, collection, parent, index, parentValues, valuesArrays) ==
  IF valuesArrays = <<>> THEN R
  ELSE createCasesLoopOwnValues(
         [S |-> collectionSetCaseValuesFromArray(
                  collectionCreateCase(R.S, collection, parent, index),
                  collection, Len(R.S.cases) + 1, Head(valuesArrays)),
          result |-> [success |-> TRUE,
                      caseIDs |-> Append(R.result.caseIDs, Len(R.S.cases) + 1)],
          ids |-> <<>>],
         collection, parent, index, parentValues, Tail(valuesArrays))

\* createOneCase (in doCreateCases), applied to each array of values in turn;
\* R = [S, result, ids]
RECURSIVE createCasesLoop(_, _, _, _, _, _)
createCasesLoop(R, collection, parent, index, parentValues, valuesArrays) ==
  IF valuesArrays = <<>> THEN R
  ELSE LET S1 == collectionCreateCase(R.S, collection, parent, index)
           newCase == Len(S1.cases)
           S2 == collectionSetCaseValuesFromArray(S1, collection, newCase,
                                                   parentValues \o Head(valuesArrays))
           R2 == [S |-> S2,
                  result |-> [success |-> TRUE, caseIDs |-> Append(R.result.caseIDs, newCase)],
                  ids |-> <<>>]
       IN  createCasesLoop(R2, collection, parent, index, parentValues, Tail(valuesArrays))

\* DG.DataContext.doCreateCases.  iChange.collection = 0: not given;
\* iChange.parentType is the JavaScript typeof properties.parent:
\* "undefined", "number" (an ID, in iChange.parent) or "object" (a DG.Case
\* or null, in iChange.parent); iChange.index = -1: not given.
doCreateCases(S, iChange) ==
  LET collection == IF iChange.collection = 0 THEN childCollection(S) ELSE iChange.collection
      parentKey == IF iChange.parentType = "number" THEN iChange.parent ELSE 0
      parentIsValid == IF iChange.parentType # "object"
                         THEN validateParent(S, collection, parentKey)
                         ELSE TRUE
      parentCase == getCaseByID(S, parentKey)
      parentValues ==
        IF iChange.parentType # "object" /\ parentKey # 0 /\ parentIsValid
          THEN LET ids == getAttributeIDs(S, S.cases[parentCase].collection)
               IN  [i \in 1..Len(ids) |-> getValue(S, parentCase, ids[i])]
          ELSE <<>>
      \* DG.Case.createCase resolves a numeric parent ID through the store
      parent == IF iChange.parentType = "object" THEN iChange.parent ELSE parentCase
      R0 == [S |-> S, result |-> [success |-> FALSE, caseIDs |-> <<>>], ids |-> <<>>]
  IN  IF collection # 0 /\ parentIsValid
        THEN createCasesLoop(R0, collection, parent, iChange.index, parentValues, iChange.values)
        ELSE R0

\* --------------------------------------------------------------- deleteCases
\* DG.Collection.deleteCase / DG.Case.destroy: the case leaves its
\* collection's case list and selection and its parent's children, loses its
\* values map and is marked destroyed
collectionDeleteCase(S, iCase) ==
  LET c == S.cases[iCase].collection
      p == S.cases[iCase].parent
      cs1 == [S.cases EXCEPT ![iCase].isDestroyed = TRUE, ![iCase].values = <<>>]
      cs2 == IF p # 0 THEN [cs1 EXCEPT ![p].children = removeObject(@, iCase)] ELSE cs1
  IN  [S EXCEPT !.cases = cs2,
                !.collections[c].cases = removeObject(@, iCase),
                !.collections[c].selection = @ \ {iCase}]

\* deleteCaseAndChildren that leaves the children alone
deleteCaseOnly(D, iCase) ==
  IF D.S.cases[iCase].isDestroyed THEN D
  ELSE LET tCollection == getCollectionForCase(D.S, iCase)
           entry == [oldCase |-> iCase,
                     values |-> D.S.cases[iCase].values,
                     index |-> PosOf(D.S.collections[tCollection].cases, iCase) - 1]
       IN  [S |-> collectionDeleteCase(D.S, iCase),
            ids |-> Append(D.ids, iCase),
            deletedCases |-> Append(D.deletedCases, entry)]

RECURSIVE deleteCaseAndChildren(_, _), deleteChildren(_, _, _)

\* a deleteCaseAndChildren that does not skip a destroyed case: its ID is
\* recorded once more
deleteCaseAndChildrenAgain(D, iCase) ==
  IF D.S.cases[iCase].isDestroyed THEN [D EXCEPT !.ids = Append(@, iCase)]
  ELSE LET D1 == deleteChildren(D, D.S.cases[iCase].children,
                                Len(D.S.cases[iCase].children))
       IN  [S |-> collectionDeleteCase(D1.S, iCase),
            ids |-> Append(D1.ids, iCase),
            deletedCases |->
              Append(D1.deletedCases,
                     [oldCase |-> iCase,
                      values |-> D1.S.cases[iCase].values,
                      index |-> PosOf(D1.S.collections[getCollectionForCase(D1.S, iCase)].cases,
                                      iCase) - 1])]

\* deleteCaseAndChildren (in doDeleteCases); D = [S, ids, deletedCases].
\* deleteChildren walks the children from the last to the first.
deleteCaseAndChildren(D, iCase) ==
  IF D.S.cases[iCase].isDestroyed THEN D
  ELSE LET tChildren == D.S.cases[iCase].children
           D1 == deleteChildren(D, tChildren, Len(tChildren))
           tCollection == getCollectionForCase(D1.S, iCase)
           entry == [oldCase |-> iCase,
                     values |-> D1.S.cases[iCase].values,
                     \* caseIDToIndexMap: 0-based index in the collection
                     index |-> PosOf(D1.S.collections[tCollection].cases, iCase) - 1]
       IN  [S |-> collectionDeleteCase(D1.S, iCase),
            ids |-> Append(D1.ids, iCase),
            deletedCases |-> Append(D1.deletedCases, entry)]

deleteChildren(D, tChildren, ix) ==
  IF ix = 0 THEN D
  ELSE deleteChildren(deleteCaseAndChildren(D, tChildren[ix]), tChildren, ix - 1)

\* iChange.cases.forEach( deleteCaseAndChildren); an element that is no
\* case (0: null) ends the loop in a TypeError at iCase.get, with the
\* cases before it deleted
RECURSIVE deleteEach(_, _)
deleteEach(D, iCases) ==
  IF iCases = <<>> THEN D
  ELSE IF Head(iCases) = 0
    THEN [S |-> D.S, ids |-> D.ids, deletedCases |-> D.deletedCases, threw |-> TRUE]
  ELSE deleteEach(deleteCaseAndChildren(D, Head(iCases)), Tail(iCases))

\* DG.UndoHistory.execute for a command whose execute closure throws: the
\* command is not pushed, the exception goes on to the caller
executeThrew(D) ==
  [S |-> [D.S EXCEPT !.executeInProgress = FALSE], result |-> threw, ids |-> <<>>]

\* the position of a case's parent: <<collection, row>>, <<0, 0>> without
\* a parent, <<-1, -1>> when the parent is a destroyed case
ParentPosition(S, iCase) ==
  LET p == S.cases[iCase].parent
  IN  IF p = 0 THEN <<0, 0>>
      ELSE IF S.cases[p].isDestroyed THEN <<-1, -1>>
      ELSE <<S.cases[p].collection, PosOf(S.collections[S.cases[p].collection].cases, p)>>

\* what a collection shows of its cases, IDs left out: the values and the
\* parent's position of each case, in collection order
CaseView(S) ==
  [c \in 1..collectionCount(S) |->
     [i \in 1..Len(S.collections[c].cases) |->
        LET id == S.collections[c].cases[i]
        IN  [values |-> [a \in SeqToSet(getAttributeIDs(S, c)) |-> getValue(S, id, a)],
             parent |-> ParentPosition(S, id)]]]

\* what the collections hold, IDs included: each collection's list of
\* cases and each live case's list of children
CaseLists(S) ==
  [lists |-> [c \in 1..collectionCount(S) |-> S.collections[c].cases],
   children |-> [k \in {j \in DOMAIN S.cases : ~S.cases[j].isDestroyed} |->
                   S.cases[k].children]]

\* a command whose execute closure does not dirty the document
executeCommandUndirtied(S, iChange, D) ==
  LET command == [name |-> "data.deleteCases",
                  cases |-> iChange.cases,
                  _undoData |-> D.deletedCases,
                  oldCaseToNewCaseMap |-> <<>>,
                  before |-> CaseView(S),
                  after |-> CaseLists(D.S),
                  logLength |-> Len(S.changes) + 1]
  IN  IF "threw" \in DOMAIN D THEN executeThrew(D)
      ELSE [S |-> [D.S EXCEPT !.undoStack = Append(@, command),
                              !.redoStack = <<>>,
                              !.executeInProgress = FALSE],
            result |-> [success |-> TRUE, caseIDs |-> <<>>],
            ids |-> D.ids]

\* DG.DataContext.doDeleteCases builds the data.deleteCases command and
\* hands it to DG.UndoHistory.execute, which runs its execute closure (D is
\* what the closure leaves), pushes the command on the undo stack and
\* clears the redo stack.  The command carries the closure's variables
\* (iChange.cases, _undoData, oldCaseToNewCaseMap); logLength is the place
\* iChange takes in the change log, before is the case view before the
\* deletion, after the case lists after it.  The IDs of the deleted cases go to iChange.ids, the result
\* is { success: true }.
executeCommand(S, iChange, D) ==
  LET command == [name |-> "data.deleteCases",
                  cases |-> iChange.cases,
                  _undoData |-> D.deletedCases,
                  oldCaseToNewCaseMap |-> <<>>,
                  before |-> CaseView(S),
                  after |-> CaseLists(D.S),
                  logLength |-> Len(S.changes) + 1]
  IN  IF "threw" \in DOMAIN D THEN executeThrew(D)
      ELSE [S |-> [dirtyCurrentDocument(D.S, content) EXCEPT !.undoStack = Append(@, command),
                                                    !.redoStack = <<>>,
                                                    !.executeInProgress = FALSE],
            result |-> [success |-> TRUE, caseIDs |-> <<>>],
            ids |-> D.ids]

\* DG.DataContext.doDeleteCases
doDeleteCases(S, iChange) ==
  executeCommand(S, iChange,
                 deleteEach([S |-> [S EXCEPT !.executeInProgress = TRUE],
                             ids |-> <<>>, deletedCases |-> <<>>],
                            iChange.cases))

\* --------------------------------------------------------------- selectCases
\* the case without the cases below it
caseAlone(S, iCase) == {iCase}

\* a case and all the cases below it
RECURSIVE caseAndChildren(_, _)
caseAndChildren(S, iCase) ==
  {iCase} \cup UNION {caseAndChildren(S, k) : k \in SeqToSet(S.cases[iCase].children)}

\* selectCaseAndChildren: does selecting this case count as a change?
selectChanges(S, iCase) ==
  LET tSelection == S.collections[getCollectionForCase(S, iCase)].selection
  IN  iCase \notin tSelection \/ Cardinality(tSelection) > 1

\* deselectCaseAndChildren: does deselecting this case count as a change?
deselectChanges(S, iCase) ==
  iCase \in S.collections[getCollectionForCase(S, iCase)].selection

\* SC.SelectionSupport.selectObjects
selectObjects(selection, iCases, extend) == IF extend THEN selection \cup iCases ELSE iCases

\* SC.SelectionSupport.deselectObjects
deselectObjects(selection, iCases) == selection \ iCases

\* a selection change that never extends
tExtendNever(iChange) == FALSE

\* tExtend = iChange.extend || false
tExtendOf(iChange) == iChange.extend

\* DG.DataContext.doSelectCases.  iChange.collection = 0: not given;
\* iChange.casesGiven = FALSE: iChange.cases not given (all cases of the
\* collection).
doSelectCases(S, iChange) ==
  LET tCollection == IF iChange.collection # 0 THEN iChange.collection ELSE childCollection(S)
      tExtend == tExtendOf(iChange)
      tCases == IF iChange.casesGiven THEN iChange.cases
                ELSE IF tCollection # 0 THEN SeqToSet(S.collections[tCollection].cases)
                ELSE {}
      visited == UNION {caseAndChildren(S, k) : k \in tCases}
      \* tCollectionSelectionMap
      casesOf(c) == {k \in visited : getCollectionForCase(S, k) = c}
      isSelectionChanged ==
        IF iChange.select THEN \E k \in visited : selectChanges(S, k)
                          ELSE \E k \in visited : deselectChanges(S, k)
      \* tCollectionExtendMap after doSelectByCollection / doDeselectByCollection
      extendMap == IF iChange.select
                     THEN {c \in 1..collectionCount(S) : casesOf(c) # {}}
                     ELSE {}
      applied(c) ==
        IF casesOf(c) = {} THEN S.collections[c].selection
        ELSE IF iChange.select
               THEN selectObjects(S.collections[c].selection, casesOf(c), tExtend)
               ELSE deselectObjects(S.collections[c].selection, casesOf(c))
      \* extendForCollection in the final forEachCollection
      cleared(c) == isSelectionChanged /\ ~(IF c \in extendMap THEN TRUE ELSE tExtend)
      S1 == [S EXCEPT !.collections =
               [c \in 1..collectionCount(S) |->
                  [S.collections[c] EXCEPT !.selection = IF cleared(c) THEN {} ELSE applied(c)]],
             !.selectionChangeCount = IF isSelectionChanged THEN @ + 1 ELSE @]
  IN  [S |-> S1, result |-> [success |-> TRUE, caseIDs |-> <<>>], ids |-> <<>>]

\* --------------------------------------------------------------- updateCases
\* DG.DataContext.setCaseValuesFromArray: the values go to the case and,
\* when there is a child collection, to each of the case's children as well
RECURSIVE setChildValuesFromArray(_, _, _, _)
setChildValuesFromArray(S, childColl, children, iValues) ==
  IF children = <<>> THEN S
  ELSE setChildValuesFromArray(
         collectionSetCaseValuesFromArray(S, childColl, Head(children), iValues),
         childColl, Tail(children), iValues)

setCaseValuesFromArray(S, iCase, iValues, iCollection) ==
  LET collection == IF iCollection # 0 THEN iCollection ELSE getCollectionForCase(S, iCase)
      childColl == IF collection < collectionCount(S) THEN collection + 1 ELSE 0
  IN  IF childColl # 0
        THEN setChildValuesFromArray(
               collectionSetCaseValuesFromArray(S, collection, iCase, iValues),
               childColl, S.cases[iCase].children, iValues)
        ELSE collectionSetCaseValuesFromArray(S, collection, iCase, iValues)

\* the forEach over iChange.cases of the case-major branch of doUpdateCases
RECURSIVE updateEachCase(_, _, _, _)
updateEachCase(S, iCases, iValues, iCollection) ==
  IF iCases = <<>> THEN S
  ELSE updateEachCase(
         IF ~S.cases[Head(iCases)].isDestroyed
           THEN setCaseValuesFromArray(S, Head(iCases), Head(iValues), iCollection)
           ELSE S,
         Tail(iCases), Tail(iValues), iCollection)

\* DG.DataContext.doUpdateCases.  iChange.attributeIDs is a sequence of
\* attribute IDs; iChange.attributeIDsGiven tells whether the caller gave
\* it.  In the branch for listed attributes the callback that looks the
\* attributes up is not bound to the data context, so that a non-empty
\* list ends in a TypeError, as does a list that was not given; an empty
\* list leaves nothing to set.
doUpdateCases(S, iChange) ==
  IF Len(iChange.cases) > 0 /\ Len(iChange.attributeIDs) = 0 /\ Len(iChange.values) > 0
    THEN [S |-> updateEachCase(S, iChange.cases, iChange.values, iChange.collection),
          result |-> [success |-> TRUE, caseIDs |-> <<>>], ids |-> <<>>]
  ELSE IF ~iChange.attributeIDsGiven \/ Len(iChange.attributeIDs) > 0
    THEN [S |-> S, result |-> threw, ids |-> <<>>]
  ELSE [S |-> S, result |-> [success |-> TRUE, caseIDs |-> <<>>], ids |-> <<>>]

\* ------------------------------------------------------ attribute operations
\* DG.Collection.getAttributeByID / getAttributeByName: the position of the
\* attribute among the collection's attributes, 0 (null) when absent
getAttributeByID(S, c, iID) ==
  IF \E i \in DOMAIN S.collections[c].attrs : S.collections[c].attrs[i].id = iID
    THEN CHOOSE i \in DOMAIN S.collections[c].attrs : S.collections[c].attrs[i].id = iID
    ELSE 0

getAttributeByName(S, c, iName) ==
  IF \E i \in DOMAIN S.collections[c].attrs : S.collections[c].attrs[i].name = iName
    THEN CHOOSE i \in DOMAIN S.collections[c].attrs :
           /\ S.collections[c].attrs[i].name = iName
           /\ \A j \in 1..(i-1) : S.collections[c].attrs[j].name # iName
    ELSE 0

\* createAttribute (in doCreateAttributes), applied to each element of
\* attrPropsArray; R = [S, result, ids, operation], where operation stays
\* 'updateAttributes' until an attribute is newly created
RECURSIVE createAttributeEach(_, _, _)
createAttributeEach(R, collection, attrPropsArray) ==
  IF attrPropsArray = <<>> THEN R
  ELSE LET iAttrProps == Head(attrPropsArray)
           hadAttribute == getAttributeByName(R.S, collection, iAttrProps.name) # 0
           S1 == guaranteeAttribute(R.S, collection, iAttrProps.name)
           attribute == S1.collections[collection].attrs[
                          getAttributeByName(S1, collection, iAttrProps.name)]
       IN  createAttributeEach(
             [S |-> S1,
              result |-> [success |-> TRUE, attrIDs |-> Append(R.result.attrIDs, attribute.id)],
              ids |-> <<>>,
              operation |-> IF hadAttribute THEN R.operation ELSE "createAttributes"],
             collection, Tail(attrPropsArray))

\* DG.DataContext.doCreateAttributes; iChange.collection = 0: a name that
\* resolves to no collection
doCreateAttributes(S, iChange) ==
  LET R0 == [S |-> S, result |-> [success |-> FALSE, attrIDs |-> <<>>], ids |-> <<>>,
             operation |-> "updateAttributes"]
  IN  IF iChange.collection # 0
        THEN createAttributeEach(R0, iChange.collection, iChange.attrPropsArray)
        ELSE R0

\* updateAttribute (in doUpdateAttributes): the attribute is looked up by
\* ID when one is given (0: none), then by name; every property but the id
\* is set, which here is the name
RECURSIVE updateAttributeEach(_, _, _)
updateAttributeEach(R, collection, attrPropsArray) ==
  IF attrPropsArray = <<>> THEN R
  ELSE LET iAttrProps == Head(attrPropsArray)
           byID == IF iAttrProps.id # 0 THEN getAttributeByID(R.S, collection, iAttrProps.id) ELSE 0
           attribute == IF byID # 0 THEN byID
                        ELSE getAttributeByName(R.S, collection, iAttrProps.name)
       IN  updateAttributeEach(
             IF attribute # 0
               THEN [S |-> [R.S EXCEPT !.collections[collection].attrs[attribute].name =
                                          iAttrProps.name],
                     result |-> [success |-> TRUE,
                                 attrIDs |-> Append(R.result.attrIDs,
                                                    R.S.collections[collection].attrs[attribute].id)],
                     ids |-> <<>>]
               ELSE R,
             collection, Tail(attrPropsArray))

\* DG.DataContext.doUpdateAttributes
doUpdateAttributes(S, iChange) ==
  LET R0 == [S |-> S, result |-> [success |-> FALSE, attrIDs |-> <<>>], ids |-> <<>>]
  IN  IF iChange.collection # 0
        THEN updateAttributeEach(R0, iChange.collection, iChange.attrPropsArray)
        ELSE R0

\* DG.Attribute.destroyAttribute: the attribute leaves its collection
destroyAttribute(S, iAttrID) ==
  [S EXCEPT !.collections =
     [c \in 1..collectionCount(S) |->
        [S.collections[c] EXCEPT !.attrs = SelectSeq(@, LAMBDA a : a.id # iAttrID)]]]

\* deleteAttribute (in doDeleteAttributes): the attribute is looked up by
\* iAttr.id alone and iAttr.attribute is destroyed; result.success is left
\* as it was
RECURSIVE deleteAttributeEach(_, _, _)
deleteAttributeEach(R, collection, attrs) ==
  IF attrs = <<>> THEN R
  ELSE LET iAttr == Head(attrs)
           attribute == IF iAttr.id # 0 THEN getAttributeByID(R.S, collection, iAttr.id) ELSE 0
       IN  deleteAttributeEach(
             IF attribute # 0
               THEN [S |-> destroyAttribute(R.S, iAttr.attribute),
                     result |-> [success |-> R.result.success,
                                 attrIDs |-> Append(R.result.attrIDs, iAttr.id)],
                     ids |-> <<>>]
               ELSE R,
             collection, Tail(attrs))

\* DG.DataContext.doDeleteAttributes
doDeleteAttributes(S, iChange) ==
  LET R0 == [S |-> S, result |-> [success |-> FALSE, attrIDs |-> <<>>], ids |-> <<>>]
  IN  IF iChange.collection # 0
        THEN deleteAttributeEach(R0, iChange.collection, iChange.attrs)
        ELSE R0

\* ----------------------------------------------------------- resetCollections
\* what a JavaScript function without a return statement answers
undefined == [undefined |-> TRUE]

\* DG.store.destroyAllRecordsOfType for DG.Case, DG.Attribute and
\* DG.CollectionRecord: every case is destroyed, no collection is left
destroyAllRecords(S) ==
  [S EXCEPT !.collections = <<>>,
            !.cases = [k \in DOMAIN S.cases |->
                         [S.cases[k] EXCEPT !.isDestroyed = TRUE, !.values = <<>>,
                                            !.children = <<>>]]]

\* DG.DataContext.doResetCollections has no return statement
doResetCollections(S, iChange) ==
  [S |-> destroyAllRecords(S), result |-> undefined, ids |-> <<>>]

\* ------------------------------------------------- performChange, applyChange
\* the end of performChange, which an exception in the operation skips
dirtyUnlessThrown(R) ==
  IF R.result = threw THEN R ELSE [R EXCEPT !.S = dirtyCurrentDocument(@, context)]

\* performChange that carries out a change whose isComplete is set
performChangeAlways(S, iChange) ==
  CASE iChange.operation = "deleteCases" -> doDeleteCases(S, iChange)
    [] OTHER ->
         [S |-> dirtyCurrentDocument(S, context),
          result |-> [success |-> FALSE, caseIDs |-> <<>>], ids |-> <<>>]

\* DG.DataContext.performChange; the answer is [S, result, ids], ids being
\* what the operation writes to iChange.ids
performChange(S, iChange) ==
  IF iChange.isComplete
    THEN [S |-> S, result |-> [success |-> TRUE, caseIDs |-> <<>>], ids |-> <<>>]
  ELSE CASE iChange.operation = "createCollection" ->
              dirtyUnlessThrown(doCreateCollection(S, iChange))
         [] iChange.operation = "createCase" ->
              [doCreateCases(S, [iChange EXCEPT !.values = <<iChange.values>>])
                 EXCEPT !.S = dirtyCurrentDocument(@, context)]
         [] iChange.operation = "createCases" ->
              [doCreateCases(S, iChange) EXCEPT !.S = dirtyCurrentDocument(@, context)]
         [] iChange.operation = "deleteCases" -> doDeleteCases(S, iChange)
         [] iChange.operation = "updateCases" -> dirtyUnlessThrown(doUpdateCases(S, iChange))
         [] iChange.operation = "selectCases" -> doSelectCases(S, iChange)
         [] iChange.operation = "createAttributes" ->
              [doCreateAttributes(S, iChange) EXCEPT !.S = dirtyCurrentDocument(@, context)]
         [] iChange.operation = "updateAttributes" ->
              [doUpdateAttributes(S, iChange) EXCEPT !.S = dirtyCurrentDocument(@, context)]
         [] iChange.operation = "deleteAttributes" ->
              [doDeleteAttributes(S, iChange) EXCEPT !.S = dirtyCurrentDocument(@, context)]
         [] iChange.operation = "resetCollections" ->
              [doResetCollections(S, iChange) EXCEPT !.S = dirtyCurrentDocument(@, context)]
         [] OTHER ->
              [S |-> dirtyCurrentDocument(S, context),
               result |-> [success |-> FALSE], ids |-> <<>>]

\* iChange.operation as the log shows it: doCreateAttributes rewrites it
loggedOperation(R, iChange) ==
  IF "operation" \in DOMAIN R THEN R.operation ELSE iChange.operation

\* a change that is logged without being counted
pushChangeUncounted(R, iChange) ==
  [S |-> [R.S EXCEPT !.changes = Append(@, [operation |-> iChange.operation,
                                             isComplete |-> iChange.isComplete,
                                             result |-> R.result,
                                             ids |-> R.ids]),
                     !.invokeLastPending = TRUE],
   result |-> R.result]

\* DG.DataContext.applyChange after performChange has answered R: the
\* change, with its result, goes to the log, _changeCount is incremented,
\* the changeCount update is queued for the end of the run loop; an
\* exception in performChange leaves applyChange before any of this
pushChange(R, iChange) ==
  IF R.result = threw THEN [S |-> R.S, result |-> R.result]
  ELSE [S |-> [R.S EXCEPT !.changes = Append(@, [operation |-> loggedOperation(R, iChange),
                                                  isComplete |-> iChange.isComplete,
                                                  result |-> R.result,
                                                  ids |-> R.ids]),
                          !._changeCount = @ + 1,
                          !.invokeLastPending = TRUE],
        result |-> R.result]

\* DG.DataContext.applyChange
applyChange(S, iChange) == pushChange(performChange(S, iChange), iChange)

\* DG.DataContext.lastChange: the most recently applied change, 0 (null)
\* when the log is empty
lastChange(S) == IF Len(S.changes) > 0 THEN S.changes[Len(S.changes)] ELSE 0

\* DG.DataContext.newChanges: changes.slice( changesLength - newCount)
newChanges(S) ==
  SubSeq(S.changes, Len(S.changes) - (S._changeCount - S._prevChangeCount) + 1,
         Len(S.changes))

\* ------------------------------------------------ guide and graph commands
\* a command of the guide or of the graph, as DG.Command.create builds it;
\* shown is what the command left of the visibility it commands
simpleCommand(iName, iShown) ==
  [name |-> iName, cases |-> <<>>, _undoData |-> <<>>, oldCaseToNewCaseMap |-> <<>>,
   before |-> <<>>, after |-> <<>>, logLength |-> 0, shown |-> iShown]

\* DG.UndoHistory.execute after the execute closure has run: the command
\* goes on the undo stack, the redo stack is cleared
pushUndo(S, command) ==
  [S EXCEPT !.undoStack = Append(@, command), !.redoStack = <<>>,
            !.executeInProgress = FALSE]

\* showGuide on an undo history that keeps the redo stack
showGuideKeepRedo(S) ==
  [S EXCEPT !.guideIsVisible = TRUE,
            !.undoStack = Append(@, simpleCommand("guide.show", TRUE)),
            !.executeInProgress = FALSE]

\* DG.GuideController.showGuide: the guide.show command makes the guide
\* view visible
showGuide(S) ==
  pushUndo([S EXCEPT !.guideIsVisible = TRUE], simpleCommand("guide.show", TRUE))

\* a toggle that shows the plotted mean and never hides it
toggleShowOnly(S) == [S EXCEPT !.plottedMeanIsVisible = TRUE]

\* toggle (in DG.DotPlotModel.toggleAverage): toggleAdornmentVisibility for
\* the plotted mean
toggle(S) == [S EXCEPT !.plottedMeanIsVisible = ~@]

\* DG.DotPlotModel.toggleAverage('plottedMean', 'togglePlottedMean')
toggleAverage(S) ==
  pushUndo(toggle(S), simpleCommand("graph.togglePlottedMean", ~S.plottedMeanIsVisible))

\* ------------------------------------------------------ undo and redo closures
\* the createCase change the undo closure builds for one deleted case
\* (an entry of _undoData); R = [S, map], map being oldCaseToNewCaseMap
recreateChange(R, entry) ==
  LET oldCase == entry.oldCase
      oldValuesMap == entry.values
      oldParent == R.S.cases[oldCase].parent
      \* DG.ObjectMap.forEach visits the map's keys in ascending order
      keys == SortedSeq(DOMAIN oldValuesMap)
  IN  [operation |-> "createCase", isComplete |-> FALSE,
       collection |-> getCollectionForCase(R.S, oldCase),
       parentType |-> "object",
       parent |-> IF oldParent # 0 /\ oldParent \in DOMAIN R.map
                    THEN R.map[oldParent] ELSE oldParent,
       index |-> entry.index,
       values |-> [k \in 1..Len(keys) |-> oldValuesMap[keys[k]]]]

\* the undo closure after applyChange has answered A: the new case is
\* entered in oldCaseToNewCaseMap under the old one
recordNewCase(R, oldCase, A) ==
  [S |-> A.S,
   map |-> IF A.result.caseIDs # <<>>
             THEN (oldCase :> A.result.caseIDs[1]) @@ R.map
             ELSE R.map]

\* the undo closure of data.deleteCases: from the last deleted case to the
\* first, re-create the case through applyChange( createCase); then dirty
\* the document
RECURSIVE undoDeleteCases(_, _, _)
undoDeleteCases(R, undoData, i) ==
  IF i = 0 THEN [R EXCEPT !.S = dirtyCurrentDocument(@, content)]
  ELSE undoDeleteCases(recordNewCase(R, undoData[i].oldCase,
                                     applyChange(R.S, recreateChange(R, undoData[i]))),
                       undoData, i - 1)

\* DG.UndoHistory.undo after the undo closure has run: the command goes to
\* the redo stack
pushRedo(R, command) ==
  [R.S EXCEPT
     !.executeInProgress = FALSE,
     !.redoStack = Append(@, [command EXCEPT !.oldCaseToNewCaseMap = R.map])]

\* the undo closure of a command, run on S; the answer is [S, map]
undoClosure(S, command) ==
  CASE command.name = "data.deleteCases" ->
         undoDeleteCases([S |-> S, map |-> command.oldCaseToNewCaseMap],
                         command._undoData, Len(command._undoData))
    [] command.name = "guide.show" ->
         [S |-> [S EXCEPT !.guideIsVisible = FALSE], map |-> command.oldCaseToNewCaseMap]
    [] command.name = "graph.togglePlottedMean" ->
         [S |-> toggle(S), map |-> command.oldCaseToNewCaseMap]

\* DG.UndoHistory.undo: pop the top command, run its undo closure, push it
\* on the redo stack
undo(S) ==
  LET command == S.undoStack[Len(S.undoStack)]
      S0 == [S EXCEPT !.undoStack = SubSeq(@, 1, Len(@) - 1), !.executeInProgress = TRUE]
  IN  pushRedo(undoClosure(S0, command), command)

\* a redo closure that deletes the cases iChange names, which are the
\* original ones
redoDeleteOriginals(S, command) ==
  applyChange([S EXCEPT !.changes[command.logLength].ids = <<>>],
              [operation |-> "deleteCases", isComplete |-> FALSE,
               cases |-> command.cases]).S

\* the redo closure of data.deleteCases: delete, through applyChange, the
\* cases that undo created in place of the original ones.  newChange is a
\* shallow clone of iChange, so that newChange.ids.length = 0 empties the
\* ids of the logged iChange as well.
redoDeleteCases(S, command) ==
  LET newCases == [i \in 1..Len(command.cases) |->
                     IF command.cases[i] \in DOMAIN command.oldCaseToNewCaseMap
                       THEN command.oldCaseToNewCaseMap[command.cases[i]]
                       ELSE command.cases[i]]
      newChange == [operation |-> "deleteCases", isComplete |-> FALSE, cases |-> newCases]
      S1 == [S EXCEPT !.changes[command.logLength].ids = <<>>]
  IN  applyChange(S1, newChange).S

\* the redo closure of a command, run on S; a command that has none
\* (guide.show, graph.togglePlottedMean) has its execute closure run again
redoClosure(S, command) ==
  CASE command.name = "data.deleteCases" -> redoDeleteCases(S, command)
    [] command.name = "guide.show" -> [S EXCEPT !.guideIsVisible = TRUE]
    [] command.name = "graph.togglePlottedMean" -> toggle(S)

\* DG.UndoHistory.redo: pop the top redo command, run its redo closure, push
\* it on the undo stack
redo(S) ==
  LET command == S.redoStack[Len(S.redoStack)]
      S0 == [S EXCEPT !.redoStack = SubSeq(@, 1, Len(@) - 1), !.executeInProgress = TRUE]
  IN  [redoClosure(S0, command) EXCEPT !.executeInProgress = FALSE,
                                        !.undoStack = Append(@, command)]

\* ------------------------------------------------------ saving the document
\* DG.USE_DIFFERENTIAL_SAVING: the model saves whole documents
USE_DIFFERENTIAL_SAVING == FALSE

\* DG.DocumentController.signalSaveInProgress: a new Deferred whose first
\* done callback clears saveInProgress
signalSaveInProgress(S) == [S EXCEPT !.saveInProgress = TRUE, !.saveDone = <<>>]

\* DG.DocumentController.updateSavedChangeCount
updateSavedChangeCount(S) == [S EXCEPT !.savedChangeCount = S.documentChangeCount]

\* a save or copy begun: kind is "save" or "copy", phase says what it
\* waits for
begun(S, kind, phase) == [S EXCEPT !.saves = Append(@, [kind |-> kind, phase |-> phase])]

\* the save or copy begun first moves on
waitsFor(S, phase) == [S EXCEPT !.saves[1].phase = phase]

\* the callback saveDocument passes to exportDocument: the main document
\* is sent to the server if it has unsaved changes, else the save is
\* resolved in a later turn; then the document is cleared of changes
exportDocumentForSave(S) ==
  clearChangedObject(
    waitsFor(S, IF objectHasUnsavedChanges(S, content) THEN "document" ELSE "later"),
    content)

\* the callback saveDocument passes to exportDataContexts, for the data
\* context: the context is sent to the server if it has unsaved changes or
\* no external document ID; a context saved for the first time dirties the
\* main document
exportDataContextForSave(S) ==
  IF objectHasUnsavedChanges(S, context) \/ S.externalDocumentId = 0
    THEN IF S.externalDocumentId = 0
           THEN dirtyCurrentDocument(
                  begun(clearChangedObject(S, context), "save", "context"), content)
           ELSE begun(clearChangedObject(S, context), "save", "context")
    ELSE exportDocumentForSave(begun(S, "save", "contexts"))

\* a saveDocument that does not look at saveInProgress
saveDocumentRegardless(S) ==
  exportDataContextForSave(updateSavedChangeCount(signalSaveInProgress(S)))

\* DG.DocumentController.saveDocument, up to the requests it sends
saveDocument(S) ==
  IF S.saveInProgress THEN S
  ELSE exportDataContextForSave(updateSavedChangeCount(signalSaveInProgress(S)))

\* DG.DocumentController.copyDocument, up to the requests it sends
copyDocument(S) ==
  IF S.saveInProgress
    THEN [S EXCEPT !.saveDone = Append(@, [kind |-> "copyDocument", changedObject |-> content])]
    ELSE begun(signalSaveInProgress(S), "copy", "context")

\* the done callbacks of a resolved saveInProgress, in the order they were
\* added
RECURSIVE runDone(_, _)
runDone(S, callbacks) ==
  IF callbacks = <<>> THEN S
  ELSE runDone(IF Head(callbacks).kind = "update"
                 THEN update(S, Head(callbacks).changedObject)
                 ELSE copyDocument(S),
               Tail(callbacks))

\* saveInProgress.resolve(): the save is finished, saveInProgress is
\* cleared and the callbacks waiting for it run
resolve(S) ==
  runDone([S EXCEPT !.saveInProgress = FALSE, !.saveDone = <<>>, !.saves = Tail(@)],
          S.saveDone)

\* DG.DocumentController.receivedSaveExternalDataContextSuccess and what
\* follows the resolved promise: a save goes on to the main document, a
\* copy sends the copy of the main document
receivedSaveExternalDataContextSuccess(S, isCopy) ==
  IF isCopy
    THEN waitsFor([S EXCEPT !.oldExternalDocumentId = S.externalDocumentId,
                            !.externalDocumentId = 1], "document")
    ELSE exportDocumentForSave([S EXCEPT !.externalDocumentId = 1])

\* DG.DocumentController.receivedSaveExternalDataContextFailure: the promise
\* it returns is never resolved
receivedSaveExternalDataContextFailure(S, errorCode) ==
  waitsFor([S EXCEPT !._skipPatchNextTime =
                        IF errorCode = "error.invalidPatch" THEN @ \cup {context} ELSE @],
           "never")

\* what saveDocument does when the save of the main document is answered
receivedSaveDocument(S, success) ==
  IF success THEN resolve(S) ELSE resolve(dirtyCurrentDocument(S, content))

\* what copyDocument does when the copy of the main document is answered:
\* the data context gets its external document ID back
receivedCopyDocument(S) ==
  IF S.externalDocumentId # 0
    THEN resolve([S EXCEPT !.externalDocumentId = S.oldExternalDocumentId,
                           !.oldExternalDocumentId = 0])
    ELSE resolve(S)

\* ------------------------------------------------------------- case tables
\* A case table view has one table for each collection, chained parent to
\* child through childTable; each table has its own row index
\* (DG.CaseTableDataManager) and all share the table model that holds the
\* collapsed marks.  V bundles their state and the notifications and
\* rebuilds of the call in progress.
ViewState == [collapsed |-> collapsed, _rowCaseMap |-> _rowCaseMap,
              suspended |-> suspended, refreshNeeded |-> refreshNeeded,
              updateDepth |-> updateDepth,
              onRowCountChanged |-> <<>>, rebuilt |-> <<>>]

\* the table of the child collection, 0 (null) for the last table
childTable(S, t) == IF t < collectionCount(S) THEN t + 1 ELSE 0

\* DG.CaseTableModel.isCollapsedNode
isCollapsedNode(V, node) == node \in V.collapsed

\* DG.CaseTableModel.collapseNode
collapseNode(V, node) == [V EXCEPT !.collapsed = @ \cup {node}]

\* DG.CaseTableModel.expandNode
expandNode(V, node) == [V EXCEPT !.collapsed = @ \ {node}]

\* makeCollections of refresh: this collection and its ancestor
\* collections, root first
RECURSIVE makeCollections(_, _)
makeCollections(S, iCollection) ==
  IF iCollection = 0 THEN <<>>
  ELSE Append(makeCollections(S, getParentCollectionID(S, iCollection)), iCollection)

\* visit of refresh: the rows of a list of nodes at a level (0-based) of
\* the chain of collections
RECURSIVE visit(_, _, _, _, _)
visit(S, V, nodes, level, collectionsLength) ==
  IF nodes = <<>> THEN <<>>
  ELSE (IF level = collectionsLength - 1 THEN <<Head(nodes)>>
        ELSE IF isCollapsedNode(V, Head(nodes)) THEN <<Head(nodes)>>
        ELSE visit(S, V, S.cases[Head(nodes)].children, level + 1, collectionsLength))
       \o visit(S, V, Tail(nodes), level, collectionsLength)

\* rowCaseIndex !== beforeCount: an Array is never strictly equal to a
\* Number
arrayDiffersFromNumber(rowCaseIndex, beforeCount) == TRUE

\* the row map refresh builds for table t
rowCaseIndexOf(S, V, t) ==
  visit(S, V, S.collections[makeCollections(S, t)[1]].cases, 0,
        Len(makeCollections(S, t)))

\* the rebuilding part of DG.CaseTableDataManager.refresh
rebuild(V, t, beforeCount, rowCaseIndex) ==
  [V EXCEPT !._rowCaseMap[t] = rowCaseIndex,
            !.onRowCountChanged =
               IF arrayDiffersFromNumber(rowCaseIndex, beforeCount)
                 THEN Append(@, [table |-> t, previous |-> beforeCount,
                                 current |-> Len(rowCaseIndex)])
                 ELSE @,
            !.refreshNeeded[t] = FALSE,
            !.rebuilt = Append(@, [table |-> t, previous |-> beforeCount,
                                   current |-> Len(rowCaseIndex),
                                   depth |-> V.updateDepth[t]])]

\* DG.CaseTableDataManager.refresh
refresh(S, V, t) ==
  IF V.suspended[t] THEN [V EXCEPT !.refreshNeeded[t] = TRUE]
  ELSE rebuild(V, t, Len(V._rowCaseMap[t]), rowCaseIndexOf(S, V, t))

\* DG.CaseTableDataManager.beginUpdate
beginUpdate(V, t) ==
  [V EXCEPT !.suspended[t] = TRUE, !.updateDepth[t] = @ + 1]

\* DG.CaseTableDataManager.endUpdate
endUpdate(S, V, t) ==
  IF V.refreshNeeded[t]
    THEN refresh(S, [V EXCEPT !.suspended[t] = FALSE, !.updateDepth[t] = @ - 1], t)
    ELSE [V EXCEPT !.suspended[t] = FALSE, !.updateDepth[t] = @ - 1]

\* the index of the case among the cases of the table's collection
\* (getIdxById) in place of its row
getRowByIdInCollection(S, V, t, iCaseID) ==
  PosOf(S.collections[t].cases, iCaseID) - 1

\* DG.CaseTableDataManager.getRowById: the 0-based row of the case, -1 when
\* the case is in no row
getRowById(S, V, t, iCaseID) ==
  IF getCaseByID(S, iCaseID) = 0 THEN -1
  ELSE PosOf(V._rowCaseMap[t], getCaseByID(S, iCaseID)) - 1

\* DG.CaseTableDataManager.getLength
getLength(V, t) == Len(V._rowCaseMap[t])

\* DG.CaseTableDataManager.getItem, for a row of the table
getItem(V, t, row) == V._rowCaseMap[t][row + 1]

\* a collapseGroup that marks nothing
collapseGroupIgnored(S, V, iCaseID) == V

\* DG.CaseTableDataManager.collapseGroup
collapseGroup(S, V, iCaseID) ==
  IF getCaseByID(S, iCaseID) # 0 THEN collapseNode(V, getCaseByID(S, iCaseID)) ELSE V

\* DG.CaseTableDataManager.expandGroup
expandGroup(S, V, iCaseID) ==
  IF getCaseByID(S, iCaseID) # 0 THEN expandNode(V, getCaseByID(S, iCaseID)) ELSE V

\* DG.CaseTableView._refreshDataView
RECURSIVE _refreshDataView(_, _, _, _)
_refreshDataView(S, V, t, recurse) ==
  IF childTable(S, t) # 0 /\ recurse
    THEN _refreshDataView(S, refresh(S, V, t), childTable(S, t), recurse)
    ELSE refresh(S, V, t)

\* DG.CaseTableView.collapseCase
collapseCase(S, V, t, iCaseID) ==
  IF childTable(S, t) # 0
    THEN _refreshDataView(S, collapseGroup(S, V, iCaseID), childTable(S, t), TRUE)
    ELSE collapseGroup(S, V, iCaseID)

\* DG.CaseTableView.expandCase
expandCase(S, V, t, iCaseID) ==
  IF childTable(S, t) # 0
    THEN _refreshDataView(S, expandGroup(S, V, iCaseID), childTable(S, t), TRUE)
    ELSE expandGroup(S, V, iCaseID)

\* DG.CaseTableView.beginDataViewUpdate
RECURSIVE beginDataViewUpdate(_, _, _, _)
beginDataViewUpdate(S, V, t, recurse) ==
  IF recurse /\ childTable(S, t) # 0
    THEN beginDataViewUpdate(S, beginUpdate(V, t), childTable(S, t), recurse)
    ELSE beginUpdate(V, t)

\* DG.CaseTableView.endDataViewUpdate
RECURSIVE endDataViewUpdate(_, _, _, _)
endDataViewUpdate(S, V, t, recurse) ==
  IF recurse /\ childTable(S, t) # 0
    THEN endDataViewUpdate(S, endUpdate(S, V, t), childTable(S, t), recurse)
    ELSE endUpdate(S, V, t)

\* the loop of expandCollapseAll over the cases of the table's collection
RECURSIVE expandCollapseEach(_, _, _, _)
expandCollapseEach(S, V, iCases, iExpand) ==
  IF iCases = <<>> THEN V
  ELSE expandCollapseEach(S, IF iExpand THEN expandGroup(S, V, Head(iCases))
                                        ELSE collapseGroup(S, V, Head(iCases)),
                          Tail(iCases), iExpand)

\* DG.CaseTableView.expandCollapseAll, for a table that has a child table
expandCollapseAll(S, V, t, iExpand) ==
  _refreshDataView(S,
    endDataViewUpdate(S,
      expandCollapseEach(S, beginDataViewUpdate(S, V, t, TRUE),
                         S.collections[t].cases, iExpand),
      t, TRUE),
    childTable(S, t), TRUE)

\* ------------------------------------------------------------ initial state
\* A data context is built empty or restored from a document
\* (restoreFromStorage); the change log starts empty either way.  The
\* restored documents are the ones createCollection and createCase produce:
\* the root collection has attribute x, each child collection its inherited
\* copy of x and an attribute y of its own.
RestoredCollection(i) ==
  [name |-> CollOrder[i], parent |-> i - 1,
   attrs |-> IF i = 1 THEN <<[id |-> 1, name |-> "x"]>>
             ELSE <<[id |-> 2 * i - 2, name |-> "x"], [id |-> 2 * i - 1, name |-> "y"]>>,
   cases |-> <<>>, selection |-> {}]

\* the document without cases
EmptyDocument ==
  [collections |-> [i \in 1..Len(CollOrder) |-> RestoredCollection(i)], cases |-> <<>>]

\* the document with one family: case 1 in Families, its children 2 and 3
\* in People, and case 4 in Events, a child of case 2
FamilyDocument ==
  [collections |->
     [i \in 1..Len(CollOrder) |->
        [RestoredCollection(i) EXCEPT !.cases = CASE i = 1 -> <<1>>
                                                  [] i = 2 -> <<2, 3>>
                                                  [] OTHER -> <<4>>]],
   cases |->
     << [collection |-> 1, parent |-> 0, children |-> <<2, 3>>,
         values |-> (1 :> 1), isDestroyed |-> FALSE],
        [collection |-> 2, parent |-> 1, children |-> <<4>>,
         values |-> (2 :> 1) @@ (3 :> 2), isDestroyed |-> FALSE],
        [collection |-> 2, parent |-> 1, children |-> <<>>,
         values |-> (2 :> 1) @@ (3 :> 1), isDestroyed |-> FALSE],
        [collection |-> 3, parent |-> 2, children |-> <<>>,
         values |-> (4 :> 1) @@ (5 :> 2), isDestroyed |-> FALSE] >>]

\* the document with two collections: case 1 in Families and its children
\* 2, 3 and 4 in People
TroopDocument ==
  [collections |->
     [i \in 1..2 |->
        [RestoredCollection(i) EXCEPT !.cases = IF i = 1 THEN <<1>> ELSE <<2, 3, 4>>]],
   cases |->
     << [collection |-> 1, parent |-> 0, children |-> <<2, 3, 4>>,
         values |-> (1 :> 1), isDestroyed |-> FALSE] >> \o
     [k \in 1..3 |-> [collection |-> 2, parent |-> 1, children |-> <<>>,
                      values |-> (2 :> 1) @@ (3 :> k), isDestroyed |-> FALSE]]]

\* a document whose one collection was created with the attributes x, y,
\* created again with y, x (which reorders them), and then given two
\* cases by createCase: attribute y comes first and has the higher ID
ReorderedDocument ==
  [collections |->
     << [name |-> CollOrder[1], parent |-> 0,
         attrs |-> <<[id |-> 2, name |-> "y"], [id |-> 1, name |-> "x"]>>,
         cases |-> <<1, 2>>, selection |-> {}] >>,
   cases |->
     << [collection |-> 1, parent |-> 0, children |-> <<>>,
         values |-> (1 :> 1) @@ (2 :> 2), isDestroyed |-> FALSE],
        [collection |-> 1, parent |-> 0, children |-> <<>>,
         values |-> (1 :> 2) @@ (2 :> 1), isDestroyed |-> FALSE] >>]

\* the highest attribute ID a document uses
LastAttributeID(d) ==
  LET ids == UNION {{d.collections[c].attrs[i].id : i \in DOMAIN d.collections[c].attrs} :
                      c \in DOMAIN d.collections}
  IN  IF ids = {} THEN 0 ELSE CHOOSE m \in ids : \A k \in ids : k <= m

NewContext == [collections |-> <<>>, cases |-> <<>>]

NoCall == [op |-> "init", collection |-> 0, cases |-> <<>>, select |-> FALSE,
           extend |-> FALSE, isComplete |-> FALSE, threw |-> FALSE, parent |-> 0,
           attributeIDs |-> <<>>, values |-> <<>>, name |-> ""]

\* no call on the case tables
NoTableCall == [op |-> "none", table |-> 0, case |-> 0, recurse |-> FALSE,
                onRowCountChanged |-> <<>>, rebuilt |-> <<>>]

\* the state after the document controller has set up a document whose
\* data context has one of the given external document IDs
InitSaved(documents, ids) ==
  /\ externalDocumentId \in ids
  /\ oldExternalDocumentId = 0
  /\ saveInProgress = FALSE
  /\ saveDone = <<>>
  /\ saves = <<>>
  /\ savedChangeCount = 0
  /\ _changedObjects = {}
  /\ _skipPatchNextTime = {}
  /\ \E d \in documents :
       /\ collections = d.collections
       /\ cases = d.cases
       /\ attrCount = LastAttributeID(d)
  /\ changes = <<>>
  /\ _changeCount = 0
  /\ _prevChangeCount = 0
  /\ changeCount = 0
  /\ invokeLastPending = FALSE
  /\ selectionChangeCount = 0
  /\ undoStack = <<>>
  /\ redoStack = <<>>
  /\ documentChangeCount = 0
  /\ guideIsVisible = FALSE
  /\ plottedMeanIsVisible = FALSE
  /\ last = NoCall
  /\ collapsed = {}
  /\ _rowCaseMap = [t \in DOMAIN collections |-> <<>>]
  /\ suspended = [t \in DOMAIN collections |-> FALSE]
  /\ refreshNeeded = [t \in DOMAIN collections |-> FALSE]
  /\ updateDepth = [t \in DOMAIN collections |-> 0]
  /\ tableLast = NoTableCall

InitFrom(documents) == InitSaved(documents, {0})

\* the documents the case tables are shown over
InitTable == InitFrom({FamilyDocument, TroopDocument})

\* the document without cases, its data context saved before or not
InitSave == InitSaved({EmptyDocument}, {0, 1})

\* a context that starts without cases
Init == InitFrom({NewContext, EmptyDocument})

\* a context restored from the family document
InitFamily == InitFrom({FamilyDocument})

\* ------------------------------------------------------------------ actions
\* the state a call leaves behind
Commit(S, call) ==
  /\ collections' = S.collections
  /\ cases' = S.cases
  /\ attrCount' = S.attrCount
  /\ changes' = S.changes
  /\ _changeCount' = S._changeCount
  /\ invokeLastPending' = S.invokeLastPending
  /\ selectionChangeCount' = S.selectionChangeCount
  /\ undoStack' = S.undoStack
  /\ redoStack' = S.redoStack
  /\ documentChangeCount' = S.documentChangeCount
  /\ guideIsVisible' = S.guideIsVisible
  /\ plottedMeanIsVisible' = S.plottedMeanIsVisible
  /\ saveInProgress' = S.saveInProgress
  /\ saveDone' = S.saveDone
  /\ saves' = S.saves
  /\ savedChangeCount' = S.savedChangeCount
  /\ _changedObjects' = S._changedObjects
  /\ _skipPatchNextTime' = S._skipPatchNextTime
  /\ externalDocumentId' = S.externalDocumentId
  /\ oldExternalDocumentId' = S.oldExternalDocumentId
  /\ last' = call
  /\ tableLast' = NoTableCall
  /\ UNCHANGED <<changeCount, _prevChangeCount>>
  /\ UNCHANGED tableVars

LiveCases == {k \in 1..Len(cases) : ~cases[k].isDestroyed}

\* applyChange of a createCollection change; the call is remembered with
\* the collection it found or created (0 for none) and whether it threw
CreateCollectionWith(iChange) ==
  Commit(applyChange(State, iChange).S,
         [NoCall EXCEPT !.op = "createCollection",
                        !.collection = getCollectionByName(applyChange(State, iChange).S,
                                                           iChange.properties.name),
                        !.threw = (applyChange(State, iChange).result = threw)])

\* applyChange({operation: 'createCollection', properties, attributes})
CreateCollection ==
  /\ Len(changes) < MaxChanges
  /\ \E name \in CollNames, parent \in {0, Len(collections)}, attributes \in AttrLists :
       CreateCollectionWith([operation |-> "createCollection", isComplete |-> FALSE,
                             properties |-> [name |-> name, parent |-> parent,
                                             isCreatable |-> TRUE],
                             attributes |-> attributes])

\* applyChange({operation: 'createCollection', properties, attributes}) for
\* a name that no collection has, when DG.Collection.createCollection
\* yields no collection
CreateCollectionFails ==
  /\ Len(changes) < MaxChanges
  /\ \E name \in CollNames, parent \in {0, Len(collections)}, attributes \in AttrLists :
       /\ getCollectionByName(State, name) = 0
       /\ CreateCollectionWith([operation |-> "createCollection", isComplete |-> FALSE,
                                properties |-> [name |-> name, parent |-> parent,
                                                isCreatable |-> FALSE],
                                attributes |-> attributes])

\* applyChange({operation: 'createCase', collection, properties: {parent}, values})
CreateCase ==
  /\ Len(changes) < MaxChanges
  /\ Len(collections) > 0
  /\ \E collection \in 0..(Len(collections) - 1), parent \in 0..(Len(cases) + 1),
        values \in ValueArrays :
       LET target == IF collection = 0 THEN Len(collections) ELSE collection
       IN  \* a parent ID that resolves to no case, given for a root
           \* collection, ends in a TypeError before anything is changed
           /\ ~(parent # 0 /\ collections[target].parent = 0 /\ getCaseByID(State, parent) = 0)
           /\ Commit(applyChange(State, [operation |-> "createCase", isComplete |-> FALSE,
                                         collection |-> collection,
                                         parentType |-> IF parent = 0 THEN "undefined" ELSE "number",
                                         parent |-> parent, index |-> -1,
                                         values |-> values]).S,
                     [NoCall EXCEPT !.op = "createCase", !.collection = target,
                                    !.parent = parent, !.values = <<values>>])

\* applyChange({operation: 'createCases', collection, properties: {parent},
\* values}), values being an array of value arrays, one for each case
CreateCases ==
  /\ Len(changes) < MaxChanges
  /\ Len(collections) > 0
  /\ \E collection \in {0}, parent \in 0..(Len(cases) + 1), values \in BatchArrays :
       LET target == IF collection = 0 THEN Len(collections) ELSE collection
       IN  /\ Len(cases) + Len(values) <= MaxChanges
           /\ ~(parent # 0 /\ collections[target].parent = 0 /\ getCaseByID(State, parent) = 0)
           /\ Commit(applyChange(State, [operation |-> "createCases", isComplete |-> FALSE,
                                         collection |-> collection,
                                         parentType |-> IF parent = 0 THEN "undefined" ELSE "number",
                                         parent |-> parent, index |-> -1,
                                         values |-> values]).S,
                     [NoCall EXCEPT !.op = "createCases", !.collection = target,
                                    !.parent = parent, !.values = values])

\* applyChange({operation: 'deleteCases', cases})
DeleteCases ==
  /\ Len(changes) < MaxChanges
  /\ \E iCases \in DistinctSeqs(LiveCases, 2) \ {<<>>} :
       Commit(applyChange(State, [operation |-> "deleteCases", isComplete |-> FALSE,
                                  cases |-> iCases]).S,
              [NoCall EXCEPT !.op = "deleteCases", !.cases = iCases])

\* applyChange({operation: 'deleteCases', cases}) with an array of cases
\* whose second element is no case (null)
DeleteCasesThrows ==
  /\ Len(changes) < MaxChanges
  /\ \E iCase \in LiveCases :
       Commit(applyChange(State, [operation |-> "deleteCases", isComplete |-> FALSE,
                                  cases |-> <<iCase, 0>>]).S,
              [NoCall EXCEPT !.op = "deleteCases", !.cases = <<iCase, 0>>, !.threw = TRUE])

\* applyChange({operation: 'selectCases', collection, cases, select, extend})
SelectCases ==
  /\ Len(changes) < MaxChanges
  /\ \E select \in BOOLEAN, extend \in BOOLEAN :
       \/ \E iCases \in (SUBSET LiveCases) \ {{}} :
            Commit(applyChange(State, [operation |-> "selectCases", isComplete |-> FALSE,
                                       collection |-> 0, casesGiven |-> TRUE, cases |-> iCases,
                                       select |-> select, extend |-> extend]).S,
                   [NoCall EXCEPT !.op = "selectCases", !.cases = SortedSeq(iCases),
                                  !.select = select, !.extend = extend])
       \/ \E collection \in 0..Len(collections) :
            Commit(applyChange(State, [operation |-> "selectCases", isComplete |-> FALSE,
                                       collection |-> collection, casesGiven |-> FALSE,
                                       cases |-> {},
                                       select |-> select, extend |-> extend]).S,
                   [NoCall EXCEPT !.op = "selectAll", !.collection = collection,
                                  !.select = select, !.extend = extend])

\* applyChange of a change whose isComplete is set: the updateCases change
\* of attrFormulaDidChange, or a deleteCases change whose deletion the
\* caller reports as already done
ApplyCompleteChange ==
  /\ Len(changes) < MaxChanges
  /\ \/ Commit(applyChange(State, [operation |-> "updateCases", isComplete |-> TRUE]).S,
               [NoCall EXCEPT !.op = "updateCases", !.isComplete = TRUE])
     \/ \E k \in LiveCases :
          Commit(applyChange(State, [operation |-> "deleteCases", isComplete |-> TRUE,
                                     cases |-> <<k>>]).S,
                 [NoCall EXCEPT !.op = "deleteCases", !.cases = <<k>>, !.isComplete = TRUE])

\* applyChange of an updateCases change that lists attributes; the call is
\* remembered with its cases, its attributes and whether it threw
UpdateCasesByAttribute(iChange) ==
  Commit(applyChange(State, iChange).S,
         [NoCall EXCEPT !.op = "updateCases", !.cases = iChange.cases,
                        !.attributeIDs = iChange.attributeIDs,
                        !.threw = (applyChange(State, iChange).result = threw)])

\* applyChange({operation: 'updateCases', cases, values}), values being
\* case-major, or ({operation: 'updateCases', cases, attributeIDs, values}),
\* values being attribute-major
UpdateCases ==
  /\ Len(changes) < MaxChanges
  /\ \E iCase \in LiveCases :
       \/ \E values \in UpdateArrays :
            Commit(applyChange(State, [operation |-> "updateCases", isComplete |-> FALSE,
                                       collection |-> 0, cases |-> <<iCase>>,
                                       attributeIDsGiven |-> FALSE, attributeIDs |-> <<>>,
                                       values |-> <<values>>]).S,
                   [NoCall EXCEPT !.op = "updateCases", !.cases = <<iCase>>])
       \/ \E a \in SeqToSet(getAttributeIDs(State, cases[iCase].collection)) :
            UpdateCasesByAttribute([operation |-> "updateCases", isComplete |-> FALSE,
                                    collection |-> 0, cases |-> <<iCase>>,
                                    attributeIDsGiven |-> TRUE, attributeIDs |-> <<a>>,
                                    values |-> << <<2>> >>])

\* the attribute changes in the log
AttributeChanges ==
  {i \in DOMAIN changes :
     changes[i].operation \in {"createAttributes", "updateAttributes", "deleteAttributes"}}

\* applyChange({operation: 'createAttributes', collection, attrPropsArray}),
\* the collection given by name (0: a name no collection has)
CreateAttributes ==
  /\ Len(changes) < MaxChanges
  /\ Cardinality(AttributeChanges) < MaxAttributeChanges
  /\ \E collection \in {0, Len(collections)}, name \in AttrNames :
       Commit(applyChange(State, [operation |-> "createAttributes", isComplete |-> FALSE,
                                  collection |-> collection,
                                  attrPropsArray |-> <<[id |-> 0, name |-> name]>>]).S,
              [NoCall EXCEPT !.op = "createAttributes", !.collection = collection,
                             !.name = name])

\* applyChange({operation: 'updateAttributes', collection, attrPropsArray}),
\* the attribute named by an ID of the collection or by name alone (id 0)
UpdateAttributes ==
  /\ Len(changes) < MaxChanges
  /\ Cardinality(AttributeChanges) < MaxAttributeChanges
  /\ Len(collections) > 0
  /\ \E collection \in {Len(collections)}, name \in AttrNames :
     \E id \in IF name = "z" THEN {a \in SeqToSet(getAttributeIDs(State, collection)) :
                                      a = getAttributeIDs(State, collection)[1]}
                             ELSE {0} :
       Commit(applyChange(State, [operation |-> "updateAttributes", isComplete |-> FALSE,
                                  collection |-> collection,
                                  attrPropsArray |-> <<[id |-> id, name |-> name]>>]).S,
              [NoCall EXCEPT !.op = "updateAttributes", !.collection = collection,
                             !.attributeIDs = IF id # 0 THEN <<id>> ELSE <<>>,
                             !.name = name])

\* applyChange({operation: 'deleteAttributes', collection, attrs}), each
\* element of attrs naming an attribute of the collection by ID, by name
\* and by the attribute itself, or by name and attribute alone (id 0)
DeleteAttributes ==
  /\ Len(changes) < MaxChanges
  /\ Cardinality(AttributeChanges) < MaxAttributeChanges
  /\ Len(collections) > 0
  /\ \E collection \in {Len(collections)} :
       \E a \in {getAttributeIDs(State, collection)[i] :
                  i \in DOMAIN getAttributeIDs(State, collection) \cap {1}},
          byID \in BOOLEAN :
         Commit(applyChange(State, [operation |-> "deleteAttributes", isComplete |-> FALSE,
                                    collection |-> collection,
                                    attrs |-> <<[id |-> IF byID THEN a ELSE 0,
                                                 name |-> collections[collection].attrs[1].name,
                                                 attribute |-> a]>>]).S,
                [NoCall EXCEPT !.op = "deleteAttributes", !.collection = collection,
                               !.attributeIDs = IF byID THEN <<a>> ELSE <<>>,
                               !.name = collections[collection].attrs[1].name])

\* applyChange({operation: 'resetCollections'})
ResetCollections ==
  /\ Len(changes) < MaxChanges
  /\ Commit(applyChange(State, [operation |-> "resetCollections", isComplete |-> FALSE]).S,
            [NoCall EXCEPT !.op = "resetCollections"])

\* DG.UndoHistory.undo()
Undo ==
  /\ undoStack # <<>>
  /\ Len(changes) <= MaxChanges
  /\ Commit(undo(State), [NoCall EXCEPT !.op = "undo"])

\* DG.UndoHistory.redo()
Redo ==
  /\ redoStack # <<>>
  /\ Len(changes) <= MaxChanges
  /\ Commit(redo(State), [NoCall EXCEPT !.op = "redo"])

\* an end of the run loop that counts one notification instead of
\* publishing _changeCount
EndRunLoopCountsOne ==
  /\ invokeLastPending
  /\ changeCount' = changeCount + 1
  /\ _prevChangeCount' = _changeCount
  /\ invokeLastPending' = FALSE
  /\ UNCHANGED <<collections, cases, attrCount, changes, _changeCount,
                 selectionChangeCount, undoStack, redoStack,
                 documentChangeCount, guideIsVisible, plottedMeanIsVisible, last,
                 tableLast>>
  /\ UNCHANGED tableVars
  /\ UNCHANGED saveVars

\* DG.GuideController.showGuide()
ShowGuide ==
  /\ Len(undoStack) + Len(redoStack) < MaxCommands
  /\ Commit(showGuide(State), [NoCall EXCEPT !.op = "showGuide"])

\* DG.DotPlotModel.togglePlottedMean()
ToggleAverage ==
  /\ Len(undoStack) + Len(redoStack) < MaxCommands
  /\ Commit(toggleAverage(State), [NoCall EXCEPT !.op = "toggleAverage"])

\* the state a call on the case tables leaves behind
CommitView(V, call) ==
  /\ collapsed' = V.collapsed
  /\ _rowCaseMap' = V._rowCaseMap
  /\ suspended' = V.suspended
  /\ refreshNeeded' = V.refreshNeeded
  /\ updateDepth' = V.updateDepth
  /\ tableLast' = [call EXCEPT !.onRowCountChanged = V.onRowCountChanged,
                                !.rebuilt = V.rebuilt]
  /\ UNCHANGED <<collections, cases, attrCount, changes, _changeCount,
                 _prevChangeCount, changeCount, invokeLastPending,
                 selectionChangeCount, undoStack, redoStack,
                 documentChangeCount, guideIsVisible, plottedMeanIsVisible, last>>
  /\ UNCHANGED saveVars

\* the tables that a call on table t reaches, with or without its child tables
TablesFrom(t, recurse) == IF recurse THEN t..Len(collections) ELSE {t}

\* DG.CaseTableView.collapseCase on the table of a parent collection
CollapseCase ==
  \E t \in 1..(Len(collections) - 1) :
    \E iCaseID \in SeqToSet(collections[t].cases) :
      CommitView(collapseCase(State, ViewState, t, iCaseID),
                 [NoTableCall EXCEPT !.op = "collapseCase", !.table = t, !.case = iCaseID])

\* DG.CaseTableView.expandCase on the table of a parent collection
ExpandCase ==
  \E t \in 1..(Len(collections) - 1) :
    \E iCaseID \in SeqToSet(collections[t].cases) :
      CommitView(expandCase(State, ViewState, t, iCaseID),
                 [NoTableCall EXCEPT !.op = "expandCase", !.table = t, !.case = iCaseID])

\* DG.CaseTableView.expandCollapseAll on a table that has a child table
ExpandCollapseAll ==
  \E t \in 1..(Len(collections) - 1), iExpand \in BOOLEAN :
    /\ \A u \in TablesFrom(t, TRUE) : updateDepth[u] < MaxNesting
    /\ CommitView(expandCollapseAll(State, ViewState, t, iExpand),
                  [NoTableCall EXCEPT !.op = IF iExpand THEN "expandAll" ELSE "collapseAll",
                                      !.table = t])

\* DG.CaseTableDataManager.refresh, as the grid adapter calls it
Refresh ==
  \E t \in DOMAIN collections :
    CommitView(refresh(State, ViewState, t),
               [NoTableCall EXCEPT !.op = "refresh", !.table = t])

\* DG.CaseTableView.beginDataViewUpdate, called on the last table
BeginDataViewUpdate ==
  \E t \in {Len(collections)}, recurse \in BOOLEAN :
    /\ \A u \in TablesFrom(t, recurse) : updateDepth[u] < MaxNesting
    /\ CommitView(beginDataViewUpdate(State, ViewState, t, recurse),
                  [NoTableCall EXCEPT !.op = "beginUpdate", !.table = t,
                                      !.recurse = recurse])

\* DG.CaseTableView.endDataViewUpdate, called on the last table to end a
\* suspension that was begun
EndDataViewUpdate ==
  \E t \in {Len(collections)}, recurse \in BOOLEAN :
    /\ \A u \in TablesFrom(t, recurse) : updateDepth[u] > 0
    /\ CommitView(endDataViewUpdate(State, ViewState, t, recurse),
                  [NoTableCall EXCEPT !.op = "endUpdate", !.table = t,
                                      !.recurse = recurse])

\* DG.DocumentController.saveDocument, requested with or without a save in
\* progress
SaveDocument ==
  /\ saveInProgress \in BOOLEAN
  /\ Commit(saveDocument(State), [NoCall EXCEPT !.op = "saveDocument"])

\* DG.DocumentController.copyDocument
CopyDocument ==
  /\ Len(saveDone) < MaxDeferred
  /\ Commit(copyDocument(State), [NoCall EXCEPT !.op = "copyDocument"])

\* the server accepts the data context that a save or copy sent
ContextSaveSucceeds ==
  /\ saves # <<>>
  /\ saves[1].phase = "context"
  /\ Commit(receivedSaveExternalDataContextSuccess(State, saves[1].kind = "copy"),
            [NoCall EXCEPT !.op = "contextSaved"])

\* the server refuses the data context that a save or copy sent
ContextSaveFails ==
  /\ saves # <<>>
  /\ saves[1].phase = "context"
  /\ \E errorCode \in {"error.invalidPatch", "error.general"} :
       Commit(receivedSaveExternalDataContextFailure(State, errorCode),
              [NoCall EXCEPT !.op = "contextSaveFailed"])

\* the server answers the save of the main document
DocumentSaveAnswered ==
  /\ saves # <<>>
  /\ saves[1].kind = "save"
  /\ saves[1].phase = "document"
  /\ \E success \in BOOLEAN :
       /\ success \/ documentChangeCount < MaxDocumentChanges
       /\ Commit(receivedSaveDocument(State, success),
                 [NoCall EXCEPT !.op = IF success THEN "documentSaved"
                                                  ELSE "documentSaveFailed"])

\* the server answers the copy of the main document
DocumentCopyAnswered ==
  /\ saves # <<>>
  /\ saves[1].kind = "copy"
  /\ saves[1].phase = "document"
  /\ Commit(receivedCopyDocument(State), [NoCall EXCEPT !.op = "documentCopied"])

\* the later turn in which a save that had nothing to send is resolved
SaveResolvedLater ==
  /\ saves # <<>>
  /\ saves[1].phase = "later"
  /\ Commit(resolve(State), [NoCall EXCEPT !.op = "saveResolved"])

\* an end of the run loop that publishes changeCount and leaves
\* _prevChangeCount as it was
EndRunLoopKeepsPrevious ==
  /\ invokeLastPending
  /\ changeCount' = _changeCount
  /\ invokeLastPending' = FALSE
  /\ UNCHANGED <<collections, cases, attrCount, changes, _changeCount, _prevChangeCount,
                 selectionChangeCount, undoStack, redoStack,
                 documentChangeCount, guideIsVisible, plottedMeanIsVisible, last,
                 tableLast>>
  /\ UNCHANGED tableVars
  /\ UNCHANGED saveVars

\* the run loop ends: the callback queued by applyChange through invokeLast
\* publishes changeCount
EndRunLoop ==
  /\ invokeLastPending
  /\ changeCount' = _changeCount
  /\ _prevChangeCount' = _changeCount
  /\ invokeLastPending' = FALSE
  /\ UNCHANGED <<collections, cases, attrCount, changes, _changeCount,
                 selectionChangeCount, undoStack, redoStack,
                 documentChangeCount, guideIsVisible, plottedMeanIsVisible, last,
                 tableLast>>
  /\ UNCHANGED tableVars
  /\ UNCHANGED saveVars

Next ==
  \/ CreateCollection
  \/ CreateCase
  \/ CreateCases
  \/ DeleteCases
  \/ DeleteCasesThrows
  \/ SelectCases
  \/ ApplyCompleteChange
  \/ UpdateCases
  \/ CreateAttributes
  \/ UpdateAttributes
  \/ DeleteAttributes
  \/ ResetCollections
  \/ Undo
  \/ Redo
  \/ EndRunLoop

Spec == Init /\ [][Next]_vars

\* deleting, undoing and redoing on the family document, with collections
\* re-created in between
NextUndo ==
  \/ CreateCollection
  \/ DeleteCases
  \/ Undo
  \/ Redo

SpecUndo == InitFamily /\ [][NextUndo]_vars

\* the commands of the data context, the guide and the graph on one undo
\* history, on the family document
NextCommands ==
  \/ DeleteCases
  \/ ShowGuide
  \/ ToggleAverage
  \/ Undo
  \/ Redo

SpecCommands == InitFamily /\ [][NextCommands]_vars

\* selecting and deleting on the family document
NextSelect ==
  \/ SelectCases
  \/ DeleteCases

SpecSelect == InitFamily /\ [][NextSelect]_vars

\* the case tables over a document whose cases stay as they are
NextTable ==
  \/ CollapseCase
  \/ ExpandCase
  \/ ExpandCollapseAll
  \/ Refresh
  \/ BeginDataViewUpdate
  \/ EndDataViewUpdate

SpecTable == InitTable /\ [][NextTable]_vars

\* the row indexes over a document whose cases are deleted
NextRows ==
  \/ DeleteCases
  \/ CollapseCase
  \/ ExpandCase
  \/ Refresh

SpecRows == InitTable /\ [][NextRows]_vars

\* the row indexes over a document whose cases are created
NextFill ==
  \/ CreateCase
  \/ CollapseCase
  \/ Refresh

SpecFill == Init /\ [][NextFill]_vars

\* creating collections, by name, in a context that is emptied in between
NextCollections ==
  \/ CreateCollection
  \/ CreateCollectionFails
  \/ ResetCollections
  \/ EndRunLoop

SpecCollections == Init /\ [][NextCollections]_vars

\* creating cases under parents, deleting them and undoing the deletion
NextCreate ==
  \/ CreateCase
  \/ CreateCases
  \/ DeleteCases
  \/ Undo

SpecCreate == InitFrom({EmptyDocument}) /\ [][NextCreate]_vars

\* deleting cases, undoing and redoing the deletion again and again, on
\* the family document and on the document with reordered attributes
NextRedo ==
  \/ DeleteCases
  \/ Undo
  \/ Redo

SpecRedo == InitFrom({FamilyDocument, ReorderedDocument}) /\ [][NextRedo]_vars

\* saving and copying a document whose data context is changed
NextSave ==
  \/ ResetCollections
  \/ SaveDocument
  \/ CopyDocument
  \/ ContextSaveSucceeds
  \/ ContextSaveFails
  \/ DocumentSaveAnswered
  \/ DocumentCopyAnswered
  \/ SaveResolvedLater

SpecSave == InitSave /\ [][NextSave]_vars

\* the same with the server answering every request it was sent, by
\* success or by failure, and the later turn of a save that sent nothing
\* coming about
SpecSaveAnswered ==
  /\ SpecSave
  /\ WF_vars(ContextSaveSucceeds \/ ContextSaveFails)
  /\ WF_vars(DocumentSaveAnswered)
  /\ WF_vars(DocumentCopyAnswered)
  /\ WF_vars(SaveResolvedLater)

\* --------------------------------------------------------------- properties
\* the calls of applyChange a step makes: undo re-creates every case of the
\* command it undoes, every other call applies one change
CallsOfApplyChange ==
  IF last'.op = "undo" THEN Len(undoStack[Len(undoStack)]._undoData) ELSE 1

getChildCollection(c) == IF c < Len(collections) THEN c + 1 ELSE 0

\* how often x occurs in s
Occurrences(s, x) == Cardinality({i \in DOMAIN s : s[i] = x})

\* C2: every case that has a parent is listed exactly once among that
\* parent's children, and its collection is the child collection of its
\* parent's collection.
C2_HierarchyIntegrity ==
  \A k \in LiveCases :
    cases[k].parent # 0 =>
      /\ Occurrences(cases[cases[k].parent].children, k) = 1
      /\ cases[k].collection = getChildCollection(cases[cases[k].parent].collection)

\* C10: applying a change whose isComplete is set changes no collection, no
\* case, no selection and no undo history; the change is appended to the
\* log with a successful result and counted.
C10_CompleteChangeOnlyLogged ==
  [][(changes' # changes /\ last'.isComplete) =>
       /\ collections' = collections
       /\ cases' = cases
       /\ attrCount' = attrCount
       /\ selectionChangeCount' = selectionChangeCount
       /\ undoStack' = undoStack
       /\ redoStack' = redoStack
       /\ Len(changes') = Len(changes) + 1
       /\ changes'[Len(changes')].isComplete
       /\ changes'[Len(changes')].result.success
       /\ _changeCount' = _changeCount + 1]_vars

\* C10 witness: a deleteCases change with isComplete set has been logged,
\* and the case it names is still there with its child
C10_Witness ==
  /\ last.op = "deleteCases"
  /\ last.isComplete
  /\ changes[Len(changes)].isComplete
  /\ last.cases[1] \in LiveCases
  /\ cases[last.cases[1]].children # <<>>

\* the live cases above k, found by following the parent links
RECURSIVE AncestorsOf(_)
AncestorsOf(k) ==
  LET p == cases[k].parent
  IN  IF p = 0 \/ cases[p].isDestroyed THEN {} ELSE {p} \cup AncestorsOf(p)

\* a live case together with its live descendants
Subtree(k) == {k} \cup {d \in LiveCases : k \in AncestorsOf(d)}

\* C3: deleteCases removes each named case together with all its
\* descendants and nothing else (K + 1 cases for a case with K
\* descendants), lists their IDs in the logged change, and afterwards
\* no surviving case lists a deleted case among its children.
C3_DeleteCascades ==
  [][(changes' # changes /\ last'.op = "deleteCases" /\ ~last'.isComplete) =>
       LET named == SeqToSet(last'.cases)
           doomed == UNION {Subtree(k) : k \in named}
       IN  /\ LiveCases \ LiveCases' = doomed
           /\ LiveCases' \subseteq LiveCases
           /\ (Cardinality(named) = 1 =>
                 \A k \in named :
                   Cardinality(LiveCases) - Cardinality(LiveCases')
                     = Cardinality(Subtree(k) \ {k}) + 1)
           /\ SeqToSet(changes'[Len(changes')].ids) = doomed
           /\ Len(changes'[Len(changes')].ids) = Cardinality(doomed)
           /\ \A k \in LiveCases' : SeqToSet(cases'[k].children) \subseteq LiveCases'
           /\ \A c \in DOMAIN collections' :
                 SeqToSet(collections'[c].cases) \cap doomed = {}]_vars

\* C3 witness: a deleteCases call named one case with a child and a
\* grandchild, and all of them are gone
C3_Witness ==
  /\ last.op = "deleteCases"
  /\ Len(last.cases) = 1
  /\ \E k, d \in 1..Len(cases) :
       /\ cases[k].parent = last.cases[1]
       /\ cases[d].parent = k
       /\ cases[last.cases[1]].isDestroyed
       /\ cases[k].isDestroyed
       /\ cases[d].isDestroyed
       /\ Len(changes[Len(changes)].ids) >= 3

\* the command an undo has just undone, directly after its deletion
UndoneDirectly ==
  /\ last.op = "undo"
  /\ redoStack # <<>>
  /\ LET command == redoStack[Len(redoStack)]
     IN  Len(changes) = command.logLength + Len(command._undoData)

\* C4: undoing a deletion directly after it brings back what the
\* collections showed before the deletion: the same values at the same
\* positions with the same parent linkage, whatever the IDs.
C4_UndoRoundTrip ==
  UndoneDirectly => CaseView(State) = redoStack[Len(redoStack)].before

\* the cases a selectCases call visits: the named cases and their descendants
Visited(named) == UNION {Subtree(k) : k \in named}

\* the cases of X that belong to collection c
InCollection(c, X) == {k \in X : cases[k].collection = c}

\* a step that is a selectCases call naming cases, with select set
SelectsNamedCases ==
  /\ changes' # changes
  /\ last'.op = "selectCases"
  /\ last'.select

\* C5: selectCases without extend leaves, in each collection it touches,
\* exactly the named cases (with their descendants) selected; with extend
\* it keeps what was selected there and adds the named cases.
C5_ExtendKeepsSelection ==
  [][SelectsNamedCases =>
       LET v == Visited(SeqToSet(last'.cases))
       IN  \A c \in DOMAIN collections :
             InCollection(c, v) # {} =>
               collections'[c].selection =
                 IF last'.extend THEN collections[c].selection \cup InCollection(c, v)
                                 ELSE InCollection(c, v)]_vars

\* C5 witness: a selectCases call with extend named cases of a collection
\* in which another case was selected, and that case is still selected
C5_Witness ==
  /\ last.op = "selectCases"
  /\ last.select
  /\ last.extend
  /\ \E c \in DOMAIN collections :
       /\ \A i \in DOMAIN last.cases : cases[last.cases[i]].collection = c
       /\ SeqToSet(last.cases) \subseteq collections[c].selection
       /\ collections[c].selection \ Visited(SeqToSet(last.cases)) # {}

\* is case k selected in its collection?
IsSelected(k) == k \in collections[cases[k].collection].selection

\* C6: after a selectCases call with select set every named case and every
\* descendant of it is selected; after one with select cleared none of
\* them is.
C6_SelectionCascades ==
  last.op = "selectCases" =>
    \A k \in Visited(SeqToSet(last.cases)) : IsSelected(k) <=> last.select

\* C6 witness: a selected case was named and its grandchild is selected
C6_Witness ==
  /\ last.op = "selectCases"
  /\ last.select
  /\ \E k \in SeqToSet(last.cases), d \in LiveCases :
       /\ k \in AncestorsOf(d)
       /\ Cardinality(AncestorsOf(d)) >= 2
       /\ cases[k].parent = 0
       /\ IsSelected(d)

\* the collections of the cases in X
CollectionsOf(X) == {cases[k].collection : k \in X}

\* C7: a selectCases call without extend that names cases of two
\* collections leaves all the named cases selected, and a following
\* selectCases call without extend that touches one of these collections
\* alone clears the selection of the other ones.
C7_SeparateCallClearsOthers ==
  /\ []((last.op = "selectCases" /\ last.select /\ ~last.extend
          /\ Cardinality(CollectionsOf(SeqToSet(last.cases))) >= 2)
        => \A k \in SeqToSet(last.cases) : IsSelected(k))
  /\ [][(/\ last.op = "selectCases" /\ last.select /\ ~last.extend
         /\ Cardinality(CollectionsOf(SeqToSet(last.cases))) >= 2
         /\ SelectsNamedCases /\ ~last'.extend
         /\ Cardinality(CollectionsOf(Visited(SeqToSet(last'.cases)))) = 1
         /\ CollectionsOf(SeqToSet(last'.cases)) \subseteq CollectionsOf(SeqToSet(last.cases)))
        => \A c \in CollectionsOf(SeqToSet(last.cases)) :
             c \notin CollectionsOf(SeqToSet(last'.cases)) => collections'[c].selection = {}]_vars

\* C8: a selectCases call without extend that names cases of a child
\* collection leaves no case selected in any collection it does not
\* touch, the parent collection included.
C8_ChildSelectClearsUntouched ==
  [][(/\ SelectsNamedCases /\ ~last'.extend
      /\ \A k \in SeqToSet(last'.cases) : collections[cases[k].collection].parent # 0)
        => \A c \in DOMAIN collections :
             InCollection(c, Visited(SeqToSet(last'.cases))) = {} =>
               collections'[c].selection = {}]_vars

\* C9: a selectCases call adds at most one to selectionChangeCount, and
\* adds it only if some case's selection membership changes.
C9_CountOnlyOnFlip ==
  [][(changes' # changes /\ last'.op \in {"selectCases", "selectAll"}) =>
       /\ selectionChangeCount' \in {selectionChangeCount, selectionChangeCount + 1}
       /\ (selectionChangeCount' # selectionChangeCount =>
             \E c \in DOMAIN collections :
               collections'[c].selection # collections[c].selection)]_vars

\* C11: the changeCount property is not updated by applyChange: no step that
\* extends the log changes it.  It changes only at the end of the run loop,
\* in a step that mutates nothing (collections, cases and the log are as
\* the applyChange calls of the turn left them), and its new value is the
\* number of changes applied, the length of the log, with no update left
\* pending.
C11_ChangeCountAtEndOfTurn ==
  [][/\ (changes' # changes => changeCount' = changeCount)
     /\ (changeCount' # changeCount =>
           /\ changes' = changes
           /\ collections' = collections
           /\ cases' = cases
           /\ changeCount' = Len(changes')
           /\ changeCount' = _changeCount'
           /\ ~invokeLastPending')]_vars

\* C11 witness: the observers have been notified once for a turn in which
\* a delete and its undo applied several changes
C11_Witness ==
  /\ last.op = "undo"
  /\ ~invokeLastPending
  /\ changeCount = Len(changes)
  /\ _prevChangeCount = changeCount
  /\ changeCount >= 3

\* the changes a step appends to the log
AppendedChanges == SubSeq(changes', Len(changes) + 1, Len(changes'))

C13_ResultHasSuccess ==
  \A i \in DOMAIN changes :
    /\ "success" \in DOMAIN changes[i].result
    /\ changes[i].result.success \in BOOLEAN

\* a step that is one createCase or createCases call from outside
CreatesCases ==
  /\ last'.op \in {"createCase", "createCases"}
  /\ Len(changes') = Len(changes) + 1

C15_BatchSurvivesInvalidParent ==
  [][(/\ CreatesCases
      /\ last'.op = "createCases"
      /\ collections[last'.collection].parent # 0
      /\ getCaseByID(State, last'.parent) = 0)
       => /\ Len(cases') > Len(cases)
          /\ changes'[Len(changes')].result.caseIDs # <<>>]_vars

\* what the collections hold: their cases in order and their selections
CollectionData ==
  [c \in DOMAIN collections |->
     [cases |-> collections[c].cases, selection |-> collections[c].selection]]

\* a step that is one applyChange call from outside which failed: it ended
\* in an exception, or it logged a result whose success is false
FailedChange ==
  /\ last'.op \notin {"undo", "redo"}
  /\ \/ last'.threw /\ last' # last
     \/ /\ Len(changes') = Len(changes) + 1
        /\ "success" \in DOMAIN changes'[Len(changes')].result
        /\ ~changes'[Len(changes')].result.success

\* C16: a failed applyChange leaves the data as it was: the cases of the
\* store with their values, parents and children, and each collection's
\* list of cases and selection, are the same before and after the call.
C16_FailureLeavesDataIntact ==
  [][FailedChange => (cases' = cases /\ CollectionData' = CollectionData)]_vars

\* the name of the command that the call of a step hands to
\* DG.UndoHistory.execute
ExecutedCommand ==
  CASE last'.op = "deleteCases" -> "data.deleteCases"
    [] last'.op = "showGuide" -> "guide.show"
    [] last'.op = "toggleAverage" -> "graph.togglePlottedMean"

\* C17: a call that hands a command to DG.UndoHistory.execute has the
\* command's execute closure run at once (the named cases are deleted, the
\* guide is visible, the plotted mean is toggled) and leaves the undo
\* stack as it was with that command added on top, and the redo stack
\* empty, whatever an earlier undo had left there.
C17_ExecutePushesAndClearsRedo ==
  [][last'.op \in {"deleteCases", "showGuide", "toggleAverage"} =>
       /\ undoStack' # <<>>
       /\ SubSeq(undoStack', 1, Len(undoStack') - 1) = undoStack
       /\ undoStack'[Len(undoStack')].name = ExecutedCommand
       /\ redoStack' = <<>>
       /\ (last'.op = "deleteCases" =>
             \A i \in DOMAIN last'.cases : cases'[last'.cases[i]].isDestroyed)
       /\ (last'.op = "showGuide" => guideIsVisible')
       /\ (last'.op = "toggleAverage" => plottedMeanIsVisible' = ~plottedMeanIsVisible)]_vars

\* C17 witness: a deletion was undone and not redone, then the guide was
\* shown: guide.show is the only command on the undo stack and nothing is
\* left to redo
C17_Witness ==
  /\ last.op = "showGuide"
  /\ guideIsVisible
  /\ Len(undoStack) = 1
  /\ undoStack[1].name = "guide.show"
  /\ redoStack = <<>>
  /\ Cardinality({i \in DOMAIN changes : changes[i].operation = "deleteCases"}) = 1
  /\ \E i \in DOMAIN changes : changes[i].operation = "createCase"
  /\ ~plottedMeanIsVisible

\* the commands that define no redo closure
WithoutRedoClosure == {"guide.show", "graph.togglePlottedMean"}

DirtiedByPerformChange ==
  {"createCollection", "createCase", "createCases", "updateCases",
   "createAttributes", "updateAttributes", "deleteAttributes", "resetCollections"}

\* a step that is one applyChange call from outside that was carried out
\* and logged
AppliesChange ==
  /\ Len(changes') = Len(changes) + 1
  /\ ~last'.isComplete
  /\ ~last'.threw

\* C19: an applyChange from outside whose operation performChange dirties
\* the document for (createCase, updateCases, ...) leaves the undo stack
\* empty; a deleteCases change, which dirties the document from inside its
\* command's execute closure, keeps every command that was on the undo
\* stack and adds its own.
C19_BareDirtyClearsUndo ==
  [][/\ (AppliesChange /\ last'.op \in DirtiedByPerformChange => undoStack' = <<>>)
     /\ (AppliesChange /\ last'.op = "deleteCases" =>
           /\ undoStack' # <<>>
           /\ SubSeq(undoStack', 1, Len(undoStack') - 1) = undoStack)]_vars

\* C19 witness: a case was created and deleted, which left the deleteCases
\* command on the undo stack, and the createCase call that followed
\* emptied the stack
C19_Witness ==
  /\ last.op = "createCase"
  /\ Len(changes) = 3
  /\ changes[2].operation = "deleteCases"
  /\ ~changes[2].isComplete
  /\ changes[3].operation = "createCase"
  /\ changes[3].result.success
  /\ undoStack = <<>>

\* the cases an undo re-created for a command, by its oldCaseToNewCaseMap
Recreated(command) ==
  {command.oldCaseToNewCaseMap[k] : k \in DOMAIN command.oldCaseToNewCaseMap}

\* the command on top of the redo stack was undone right after it was
\* executed: the change log holds its deletion and then only the
\* re-creations of its undo
UndoneAtOnce(command) ==
  /\ last.op = "undo"
  /\ Len(changes) = command.logLength + Len(command._undoData)

\* C20: redo of an undone deleteCases command deletes the cases that the
\* undo re-created, and no others: the live cases after the redo are the
\* live cases before it without the re-created ones; and after delete,
\* undo, redo in a row each collection's list of cases and each surviving
\* case's children are what they were right after the original deletion.
C20_RedoDeletesRecreated ==
  [][(/\ last'.op = "redo"
      /\ undoStack' # undoStack
      /\ redoStack # <<>>
      /\ redoStack[Len(redoStack)].name = "data.deleteCases") =>
       LET command == redoStack[Len(redoStack)]
       IN  /\ LiveCases' = LiveCases \ Recreated(command)
           /\ UndoneAtOnce(command) => CaseLists(State)' = command.after]_vars

\* C20 witness: a case with a child was deleted, the deletion undone and
\* redone in a row; the two re-created cases are gone and the collections
\* are as the deletion left them
C20_Witness ==
  /\ last.op = "redo"
  /\ undoStack # <<>>
  /\ LET command == undoStack[Len(undoStack)]
     IN  /\ command.name = "data.deleteCases"
         /\ Len(command.cases) = 1
         /\ Len(changes) = command.logLength + Len(command._undoData) + 1
         /\ Cardinality(Recreated(command)) >= 2
         /\ \A k \in Recreated(command) : cases[k].isDestroyed
         /\ CaseLists(State) = command.after

\* a hierarchy of two levels in which one parent has three children
TwoLevelsOfThree ==
  /\ Len(collections) = 2
  /\ Len(collections[1].cases) = 1
  /\ Len(cases[collections[1].cases[1]].children) = 3

\* C21: in a hierarchy of two levels where parent P has children
\* [c1, c2, c3], collapsing P and refreshing the child collection's row
\* index leaves getLength() = 1 and getItem(0) = P; expanding P and
\* refreshing leaves getLength() = 3 and getItem(i) = children[i].
C21_CollapseRoundTrip ==
  [][(TwoLevelsOfThree /\ ~suspended[2] /\ tableLast'.table = 1) =>
       LET P == collections[1].cases[1]
       IN  /\ tableLast'.op = "collapseCase" =>
                /\ getLength(ViewState, 2)' = 1
                /\ getItem(ViewState, 2, 0)' = P
           /\ tableLast'.op = "expandCase" =>
                /\ getLength(ViewState, 2)' = 3
                /\ \A i \in 0..2 : getItem(ViewState, 2, i)' = cases[P].children[i + 1]]_vars

\* C21 witness: P was expanded after it had been collapsed, the child
\* table going from one row back to the three children
C21_Witness ==
  /\ TwoLevelsOfThree
  /\ tableLast.op = "expandCase"
  /\ tableLast.rebuilt = <<[table |-> 2, previous |-> 1, current |-> 3, depth |-> 0]>>
  /\ _rowCaseMap[2] = cases[collections[1].cases[1]].children

\* the position of a case among the cases of its collection, for a case
\* without parent, or among its parent's children, after its parent's path
RECURSIVE PathOf(_)
PathOf(k) ==
  IF cases[k].parent = 0
    THEN <<PosOf(collections[cases[k].collection].cases, k)>>
    ELSE Append(PathOf(cases[k].parent), PosOf(cases[cases[k].parent].children, k))

\* path a comes before path b in a depth-first, in-order walk
PathBefore(a, b) ==
  \E i \in 1..Min(Len(a), Len(b)) :
    /\ a[i] < b[i]
    /\ \A j \in 1..(i - 1) : a[j] = b[j]

\* the cases that occupy a row of table t: the cases of its collection and
\* the collapsed cases of the collections above it, without those that
\* have a collapsed ancestor
ShownIn(t) ==
  {k \in LiveCases :
     /\ AncestorsOf(k) \cap collapsed = {}
     /\ \/ cases[k].collection = t
        \/ /\ cases[k].collection \in SeqToSet(makeCollections(State, t))
           /\ k \in collapsed}

\* the rows of table t are the depth-first, in-order listing of ShownIn(t)
RowsAreListing(t) ==
  /\ SeqToSet(_rowCaseMap[t]) = ShownIn(t)
  /\ \A i, j \in DOMAIN _rowCaseMap[t] :
       i < j => PathBefore(PathOf(_rowCaseMap[t][i]), PathOf(_rowCaseMap[t][j]))

\* C22: after refresh() of a collection's row index, the row-to-case array
\* is the depth-first, in-order listing from the root collection's cases in
\* which each collapsed case above the collection's level occupies one row
\* and hides its descendants, every case of the collection without a
\* collapsed ancestor occupies one row, and no case occupies two rows.
C22_RowsAreDepthFirstListing ==
  \A i \in DOMAIN tableLast.rebuilt : RowsAreListing(tableLast.rebuilt[i].table)

\* C23: refresh() of a row index fires onRowCountChanged only when the
\* new number of rows differs from the number of rows before the refresh.
C23_NotifiesOnlyOnNewCount ==
  \A i \in DOMAIN tableLast.onRowCountChanged :
    tableLast.onRowCountChanged[i].current # tableLast.onRowCountChanged[i].previous

\* C24: a refresh() requested while the row index is suspended by
\* beginUpdate() rebuilds nothing; the deferred rebuild runs at the
\* endUpdate() that ends the suspension, which with nested
\* beginUpdate()/endUpdate() pairs is the outermost one: whenever a row map
\* is rebuilt, every beginUpdate() on its index has been ended.
C24_RebuildsOnlyWhenNoSuspensionIsOpen ==
  \A i \in DOMAIN tableLast.rebuilt : tableLast.rebuilt[i].depth = 0

\* the tables whose row map the most recent call rebuilt
RebuiltTables == {tableLast.rebuilt[i].table : i \in DOMAIN tableLast.rebuilt}

\* C25: getRowById answers for every case ID: -1 for an ID that is
\* unknown or belongs to a deleted case, and for a case that occupies no
\* row, as a case below a collapsed ancestor does once the index is
\* refreshed; the row's index for a case that occupies a row.
C25_RowByIdOrNotFound ==
  \A t \in DOMAIN collections : \A iCaseID \in 0..(Len(cases) + 1) :
    LET row == getRowById(State, ViewState, t, iCaseID)
    IN  /\ row \in -1..(getLength(ViewState, t) - 1)
        /\ iCaseID \notin LiveCases => row = -1
        /\ row # -1 => getItem(ViewState, t, row) = iCaseID
        /\ (iCaseID \in LiveCases /\ iCaseID \notin SeqToSet(_rowCaseMap[t])) => row = -1
        /\ (iCaseID \in LiveCases /\ iCaseID \in SeqToSet(_rowCaseMap[t])) => row # -1
        /\ (/\ t \in RebuiltTables
            /\ iCaseID \in LiveCases
            /\ AncestorsOf(iCaseID) \cap collapsed # {}) => row = -1

\* C25 witness: a row index refreshed under a collapsed case answers -1
\* for a case of its collection hidden below that case and 0 for the
\* collapsed case, and an index that still lists a deleted case answers -1
\* for it
C25_Witness ==
  /\ \E t \in RebuiltTables : \E k \in LiveCases :
       /\ cases[k].collection = t
       /\ AncestorsOf(k) \cap collapsed # {}
       /\ getRowById(State, ViewState, t, k) = -1
       /\ getRowById(State, ViewState, t, cases[k].parent) = 0
  /\ \E t \in DOMAIN collections : \E d \in SeqToSet(_rowCaseMap[t]) :
       /\ cases[d].isDestroyed
       /\ getRowById(State, ViewState, t, d) = -1

\* the callback by which a copyDocument waits for the save in progress
DeferredCopy == [kind |-> "copyDocument", changedObject |-> content]

\* the calls in which a save or copy is finished
Resolving == {"documentSaved", "documentSaveFailed", "documentCopied", "saveResolved"}

\* C26: at most one save or copy is in flight, and saveInProgress is set
\* exactly while one is; a saveDocument requested meanwhile starts no
\* export and changes nothing, a copyDocument requested meanwhile only
\* waits for the save in progress, and it starts when that save is finished.
C26_OneSaveInFlight ==
  [][/\ Len(saves') <= 1
     /\ saveInProgress' <=> saves' # <<>>
     /\ (saveInProgress /\ last'.op = "saveDocument") =>
          UNCHANGED <<saves, saveDone, savedChangeCount, _changedObjects, documentChangeCount>>
     /\ (saveInProgress /\ last'.op = "copyDocument") =>
          /\ saves' = saves
          /\ saveDone' = Append(saveDone, DeferredCopy)
     /\ (last'.op \in Resolving /\ DeferredCopy \in SeqToSet(saveDone)) =>
          saves' = <<[kind |-> "copy", phase |-> "context"]>>]_vars

\* C26 witness: a copy that waited for a save was started when the save
\* was finished, and a second copy waits for the first
C26_Witness ==
  /\ last.op \in {"documentSaved", "documentSaveFailed", "saveResolved"}
  /\ saves = <<[kind |-> "copy", phase |-> "context"]>>
  /\ saveDone = <<DeferredCopy>>

\* C27: when the external save of the data context or of the main document
\* reports failure, the object is marked dirty again: it is among the
\* changed objects and the document change count exceeds the saved change
\* count, so that a later saveDocument saves it again.
C27_FailedSaveDirtiesAgain ==
  /\ last.op = "contextSaveFailed" =>
       /\ context \in _changedObjects
       /\ documentChangeCount > savedChangeCount
  /\ last.op = "documentSaveFailed" =>
       /\ content \in _changedObjects
       /\ documentChangeCount > savedChangeCount

\* C28: an updateCases call that lists attributes returns success: true and
\* leaves each listed case live with the given value for each listed
\* attribute: the call does not throw, and its change is the last of the
\* log, with a result that tells success.
C28_UpdateByAttributeSucceeds ==
  (last.op = "updateCases" /\ last.attributeIDs # <<>>)
    => /\ ~last.threw
       /\ changes # <<>>
       /\ changes[Len(changes)].operation = "updateCases"
       /\ changes[Len(changes)].result.success
       /\ \A c \in SeqToSet(last.cases) :
            \A a \in SeqToSet(last.attributeIDs) :
              getValue(State, c, a) = 2

\* C29: createCollection finds or creates by name.  A createCollection call
\* with the name of an existing collection returns that collection with
\* success: true, creates no collection and leaves the collections in
\* their order; after any createCollection call exactly one collection has
\* the name.
C29_CreateCollectionFindsOrCreates ==
  [][(last'.op = "createCollection" /\ ~last'.threw /\ changes' # changes)
       => LET result == changes'[Len(changes')].result
              name == collections'[last'.collection].name
          IN  /\ result.success
              /\ result.collection = last'.collection
              /\ Cardinality({i \in DOMAIN collections' : collections'[i].name = name}) = 1
              /\ getCollectionByName(State, name) # 0
                   => /\ result.collection = getCollectionByName(State, name)
                      /\ Len(collections') = Len(collections)
                      /\ \A i \in DOMAIN collections :
                           collections'[i].name = collections[i].name]_vars

\* C29 witness: two createCollection calls in a row gave the same
\* collection, the second of them the last call
C29_Witness ==
  /\ last.op = "createCollection"
  /\ Len(changes) >= 2
  /\ changes[Len(changes)].operation = "createCollection"
  /\ changes[Len(changes) - 1].operation = "createCollection"
  /\ changes[Len(changes)].result.collection = last.collection
  /\ changes[Len(changes) - 1].result.collection = last.collection

\* C30: a createCollection call that neither finds nor creates a
\* collection does not throw: it returns success: false with no collection
\* (null), and the change is logged with that result.
C30_CreateCollectionFailsSilently ==
  (last.op = "createCollection" /\ last.collection = 0)
    => /\ ~last.threw
       /\ changes # <<>>
       /\ changes[Len(changes)].operation = "createCollection"
       /\ ~changes[Len(changes)].result.success
       /\ changes[Len(changes)].result.collection = 0

\* the cases a step creates
NewCases == (Len(cases) + 1)..Len(cases')

\* the values of case k after the step, in the order of the attributes of
\* its collection, 0 where the case has no value
ValuesInOrder(k) ==
  LET c == cases'[k].collection
  IN  [i \in 1..Len(collections'[c].attrs) |->
         IF collections'[c].attrs[i].id \in DOMAIN cases'[k].values
           THEN cases'[k].values[collections'[c].attrs[i].id] ELSE 0]

\* case k holds the vector after the step: value by value in the order of
\* its collection's attributes, as far as the attributes go, and nothing
\* beyond the vector
HasVector(k, vector) ==
  \A i \in 1..Len(ValuesInOrder(k)) :
    ValuesInOrder(k)[i] = IF i <= Len(vector) THEN vector[i] ELSE 0

\* the values a createCase or createCases call supplies for its new case k
SuppliedByCall(k) == last'.values[k - Len(cases)]

\* the values the undo of a deletion supplies for the case it creates in
\* place of a deleted one: the old values in the order of their keys
SuppliedByUndo(entry) ==
  LET keys == SortedSeq(DOMAIN entry.values)
  IN  [i \in 1..Len(keys) |-> entry.values[keys[i]]]

\* the parent's values followed by the supplied ones, for a case that has
\* a parent
WithParentValues(k, supplied) ==
  IF cases'[k].parent # 0 THEN ValuesInOrder(cases'[k].parent) \o supplied ELSE supplied

\* a createCase or createCases call that was applied
CreatesByCall == last'.op \in {"createCase", "createCases"} /\ changes' # changes

\* an undo that re-created cases; the command is then the top of the redo
\* stack
RecreatesByUndo == last'.op = "undo" /\ changes' # changes /\ redoStack' # <<>>

\* the entries of the undone command's _undoData with the case created in
\* their place
Recreations ==
  LET command == redoStack'[Len(redoStack')]
  IN  {<<command._undoData[i], command.oldCaseToNewCaseMap[command._undoData[i].oldCase]>> :
         i \in {j \in DOMAIN command._undoData :
                  command._undoData[j].oldCase \in DOMAIN command.oldCaseToNewCaseMap}}

\* C31 (as the code has it): a case created with properties.parent naming
\* its parent by ID gets the parent's values, in the order of the parent
\* collection's attributes, followed by the caller's values, and a case
\* created without a parent gets the caller's values; a case created with
\* properties.parent holding the parent case itself, as the undo of a
\* deletion creates it, gets the caller's values alone.  The vector is
\* stored position by position on the attributes of the case's collection.
C31_ParentValuesForParentByID ==
  [][/\ CreatesByCall =>
          \A k \in NewCases : HasVector(k, WithParentValues(k, SuppliedByCall(k)))
     /\ RecreatesByUndo =>
          \A r \in Recreations :
            r[2] \in NewCases => HasVector(r[2], SuppliedByUndo(r[1]))]_vars

\* C31 witness: a createCase call with values has created a case under a
\* parent that has a value
C31_Witness ==
  /\ last.op = "createCase"
  /\ last.parent # 0
  /\ last.values = << <<1, 2>> >>
  /\ cases # <<>>
  /\ cases[Len(cases)].parent = last.parent
  /\ cases[last.parent].collection # cases[Len(cases)].collection
  /\ \E a \in DOMAIN cases[last.parent].values : cases[last.parent].values[a] # 0

\* C31: every case created under a parent gets the parent's values
\* followed by the caller's values, however properties.parent names the
\* parent; a case created without a parent gets the caller's values.
C31_ParentValuesPrecede ==
  [][/\ CreatesByCall =>
          \A k \in NewCases : HasVector(k, WithParentValues(k, SuppliedByCall(k)))
     /\ RecreatesByUndo =>
          \A r \in Recreations :
            r[2] \in NewCases =>
              HasVector(r[2], WithParentValues(r[2], SuppliedByUndo(r[1])))]_vars

\* an attribute operation that was applied to a collection and names, by
\* name and without an ID, an attribute the collection has
NamesAttributeByNameAlone ==
  /\ changes' # changes
  /\ last'.op \in {"createAttributes", "updateAttributes", "deleteAttributes"}
  /\ last'.collection # 0
  /\ last'.attributeIDs = <<>>
  /\ getAttributeByName(State, last'.collection, last'.name) # 0

\* C32: createAttributes, updateAttributes and deleteAttributes find an
\* attribute that is named by name alone: the result lists its ID, and the
\* attribute is kept by createAttributes and updateAttributes and is gone
\* from the collection after deleteAttributes.
C32_AttributeFoundByName ==
  [][NamesAttributeByNameAlone =>
       LET c == last'.collection
           id == collections[c].attrs[getAttributeByName(State, c, last'.name)].id
           kept == \E i \in DOMAIN collections'[c].attrs : collections'[c].attrs[i].id = id
       IN  /\ changes'[Len(changes')].result.attrIDs = <<id>>
           /\ kept <=> last'.op # "deleteAttributes"]_vars

\* C40: deleteAttributes returns success: true exactly when it destroyed
\* an attribute, and its attrIDs then lists the ID of each attribute it was
\* asked, by ID, to delete.
C40_DeleteAttributesTellsSuccess ==
  (/\ last.op = "deleteAttributes"
   /\ changes # <<>>
   /\ changes[Len(changes)].operation = "deleteAttributes")
    => /\ changes[Len(changes)].result.success
            <=> changes[Len(changes)].result.attrIDs # <<>>
       /\ changes[Len(changes)].result.attrIDs = last.attributeIDs

\* the collection before c in the context's order (getParentCollection), 0
\* if c is the first one
getParentCollection(c) == IF c > 1 THEN c - 1 ELSE 0

\* C33: the collections of the data context form one chain.  Each
\* collection but the first has the collection before it as its parent,
\* the first has none, no collection is the parent of two collections,
\* getParentCollection and getChildCollection undo each other, and the
\* chain of ancestors the row index follows through getParentCollectionID
\* is the context's list up to the collection.
C33_CollectionsFormOneChain ==
  \A c \in DOMAIN collections :
    /\ getParentCollectionID(State, c) = getParentCollection(c)
    /\ Cardinality({d \in DOMAIN collections : getParentCollectionID(State, d) = c}) <= 1
    /\ getChildCollection(c) # 0 => getParentCollection(getChildCollection(c)) = c
    /\ getParentCollection(c) # 0 => getChildCollection(getParentCollection(c)) = c
    /\ makeCollections(State, c) = [i \in 1..c |-> i]

\* a deleteCases call that was carried out and logged
DeletesCases ==
  /\ last'.op = "deleteCases"
  /\ ~last'.threw
  /\ ~last'.isComplete
  /\ changes' # changes

\* C34: the ids of a deleteCases change list every case the call
\* destroyed, each once, and every case after all the cases below it; the
\* destroyed cases are the named cases that were live and all the cases
\* below them, in whatever order the call names a case and one below it.
C34_IdsListDescendantsFirst ==
  [][DeletesCases =>
       LET ids == changes'[Len(changes')].ids
       IN  /\ \A i, j \in DOMAIN ids : ids[i] = ids[j] => i = j
           /\ SeqToSet(ids) = {k \in DOMAIN cases : ~cases[k].isDestroyed /\ cases'[k].isDestroyed}
           /\ SeqToSet(ids) = UNION {caseAndChildren(State, c) : c \in SeqToSet(last'.cases)}
           /\ \A i, j \in DOMAIN ids :
                (ids[i] # ids[j] /\ ids[i] \in caseAndChildren(State, ids[j])) => i < j]_vars

\* C34 witness: a deleteCases call named a case and then a child of it,
\* which was destroyed by then, and both are in the ids of the change
C34_Witness ==
  /\ last.op = "deleteCases"
  /\ ~last.threw
  /\ Len(last.cases) = 2
  /\ cases[last.cases[2]].parent = last.cases[1]
  /\ changes # <<>>
  /\ changes[Len(changes)].operation = "deleteCases"
  /\ SeqToSet(last.cases) \subseteq SeqToSet(changes[Len(changes)].ids)

\* the command on top of the redo stack is a deletion that was executed,
\* undone, redone and undone again in a row: the change log holds, from
\* its deletion on, the re-creations of the first undo, the deletion of
\* the redo and the re-creations of the second undo
UndoneTwice ==
  /\ last.op = "undo"
  /\ redoStack # <<>>
  /\ LET command == redoStack[Len(redoStack)]
         n == Len(command._undoData)
     IN  /\ command.name = "data.deleteCases"
         /\ Len(changes) = command.logLength + 2 * n + 1
         /\ changes[command.logLength + n + 1].operation = "deleteCases"

\* an undo of a deleteCases command
UndoesDelete ==
  /\ last'.op = "undo"
  /\ changes' # changes
  /\ undoStack # <<>>
  /\ undoStack[Len(undoStack)].name = "data.deleteCases"

\* a redo of a deleteCases command
RedoesDelete ==
  /\ last'.op = "redo"
  /\ changes' # changes
  /\ redoStack # <<>>
  /\ redoStack[Len(redoStack)].name = "data.deleteCases"

\* the undo of a deleteCases command leaves the command on the redo stack
\* and its redo leaves it on the undo stack
KeepsHistory ==
  /\ UndoesDelete =>
        /\ redoStack' # <<>>
        /\ redoStack'[Len(redoStack')].logLength = undoStack[Len(undoStack)].logLength
  /\ RedoesDelete =>
        /\ undoStack' # <<>>
        /\ undoStack'[Len(undoStack')].logLength = redoStack[Len(redoStack)].logLength

\* after delete, undo, redo, undo the collections show what they showed
\* before the deletion but for the values
LinkageRestoredTwice ==
  UndoneTwice =>
    LET before == redoStack[Len(redoStack)].before
        now == CaseView(State)
    IN  /\ DOMAIN now = DOMAIN before
        /\ \A c \in DOMAIN now :
             /\ Len(now[c]) = Len(before[c])
             /\ \A i \in DOMAIN now[c] : now[c][i].parent = before[c][i].parent

\* the redo after delete, undo, redo, undo deletes the re-created cases
RedoneTwice ==
  (RedoesDelete /\ UndoneTwice) =>
     /\ LiveCases' = LiveCases \ Recreated(redoStack[Len(redoStack)])
     /\ CaseLists(State)' = redoStack[Len(redoStack)].after

\* C35: a deleteCases command can be undone and redone again and again:
\* its undo leaves it on the redo stack and its redo on the undo stack;
\* after delete, undo, redo, undo the collections show what they showed
\* before the deletion (values, positions, parent linkage), and a further
\* redo deletes the re-created cases again.
C35_DeleteUndoableRepeatedly ==
  [][/\ KeepsHistory
     /\ UndoneTwice' => CaseView(State)' = redoStack'[Len(redoStack')].before
     /\ RedoneTwice]_vars

\* the end of a run loop notifies the observers of changeCount: the
\* observers run while changeCount is set, before _prevChangeCount is
\* brought up to date
NotifiesObservers ==
  /\ invokeLastPending
  /\ ~invokeLastPending'
  /\ changeCount' # changeCount

\* C36: when the observers of changeCount are notified, newChanges is the
\* part of the log after the changes they were notified of before (the
\* published changeCount), in the order of the log, it is not empty and
\* lastChange is its last element; and in every state _changeCount is at
\* most the length of the log and _prevChangeCount at most _changeCount.
C36_NewChangesSinceNotification ==
  /\ [][NotifiesObservers =>
          /\ newChanges(State) = SubSeq(changes, changeCount + 1, Len(changes))
          /\ Len(newChanges(State)) = changeCount' - changeCount
          /\ newChanges(State) # <<>>
          /\ lastChange(State) = newChanges(State)[Len(newChanges(State))]]_vars
  /\ [](/\ _changeCount <= Len(changes)
        /\ _prevChangeCount <= _changeCount)

\* C36 witness: after an earlier notification two changes were applied in
\* one turn and their notification is due
C36_Witness ==
  /\ invokeLastPending
  /\ changeCount >= 1
  /\ _prevChangeCount = changeCount
  /\ Len(newChanges(State)) = 2
  /\ Len(changes) = changeCount + 2

\* the update of a dirtying of obj waits for the save in progress
UpdateDeferred(obj) ==
  /\ saveInProgress
  /\ \E i \in DOMAIN saveDone : saveDone[i] = [kind |-> "update", changedObject |-> obj]

\* C37: a dirtying that is deferred behind a save in progress is applied
\* in the end: the object comes to be among the changed objects with the
\* document change count above the saved change count.
C37_DeferredUpdateApplied ==
  \A obj \in {content, context} :
    UpdateDeferred(obj) ~>
      (obj \in _changedObjects /\ documentChangeCount > savedChangeCount)

\* when a save in progress is resolved the deferred updates are applied:
\* their objects are among the changed objects, the document change count
\* is above the saved change count, and a saveDocument that follows sends
\* something
ResolveAppliesUpdates ==
  [][(saveInProgress /\ saves' = Tail(saves) /\ saves # <<>>) =>
       \A obj \in {content, context} :
         UpdateDeferred(obj) =>
           /\ obj \in _changedObjects'
           /\ documentChangeCount' > savedChangeCount'
           /\ ~saveInProgress' => saveDocument(State)'.saves[1].phase # "later"]_vars

\* C39: a save or copy in progress is resolved in the end, which clears
\* saveInProgress (a copy that waited for it may set it again in the same
\* turn), whether the server accepts or refuses what it is sent.
C39_SaveInProgressCleared ==
  (saveInProgress /\ last.op \notin Resolving) ~>
     (~saveInProgress \/ last.op \in Resolving)

\* a selectCases call with select: false that names one case
DeselectsOneCase ==
  /\ changes' # changes
  /\ last'.op = "selectCases"
  /\ ~last'.select
  /\ Len(last'.cases) = 1

\* the selection of every collection after the call is its selection
\* before without the named case and the cases below it
OnlyNamedDeselected ==
  \A c \in DOMAIN collections :
    collections'[c].selection = collections[c].selection \ Subtree(last'.cases[1])

\* the same for the calls that ask to extend
DeselectExtendingKeepsOthers ==
  [][(DeselectsOneCase /\ last'.extend) => OnlyNamedDeselected]_vars

\* C38: selectCases with select: false naming one case takes that case and
\* the cases below it out of the selections and leaves every other
\* selected case selected, with and without extend.
C38_DeselectKeepsOthers ==
  [][DeselectsOneCase => OnlyNamedDeselected]_vars
====
